---- MODULE Spec2Model ----
(***************************************************************************)
(* Model of the arXiv research agent:                                      *)
(*   - the Analysis Cache (src/src/cache_manager.py, class CacheManager),  *)
(*   - the analyzer (src/src/claude_analyzer.py: analyze_paper and         *)
(*     analyze_paper_batch),                                               *)
(*   - the agent process (src/src/research_agent.py: signal handler,       *)
(*     start_agent with its scheduler thread, run_once),                   *)
(*   - the retry loop of the start script (src/bootstrap.py,               *)
(*     ResilientAgent.run_agent_with_recovery), alone and around main()    *)
(*     in its --once mode,                                                 *)
(*   - the relevance score and the filter of the fetcher                   *)
(*     (src/src/arxiv_fetcher.py),                                         *)
(*   - the cycle (src/src/research_agent.py: run_daily_digest,             *)
(*     run_weekly_summary, fetch_and_analyze_papers).                      *)
(* Each component has its own variables and its own specification; the     *)
(* variables of the other components stay as they are after construction.  *)
(*                                                                         *)
(* A Python dict is a TLA+ function whose DOMAIN is the set of keys that   *)
(* are present.  The cache directory is four stores: the two JSON files    *)
(* under metadata/ and the two blob directories papers/ and analyses/.     *)
(* The cache counts time in hours; scores are in tenths.                   *)
(***************************************************************************)
EXTENDS Integers, Sequences, FiniteSets, TLC

\* ------------------------------------------------------------- bounds ----
\* hours the clock may reach
MaxTime == 2
\* longest input list given to filter_new_papers
MaxPapers == 2
\* time-to-live of an entry, in hours (self.ttl_hours, scaled down)
ttl_hours == 1
\* most text fragments one call of the reasoning service yields
MaxFragments == 4
\* longest list of papers given to analyze_paper_batch
MaxBatch == 5
\* most shutdown signals delivered to the process
MaxSignals == 2

\* ------------------------------------------------------------- inputs ----
Ids == {"p1", "p2"}

\* Text is a sequence of characters.  "|" is the separator the content
\* hash puts between the fields; a title or an abstract may contain it.
T1 == <<"a">>
T2 == <<"a", "|", "a">>

\* (title, abstract, updated) triples of the papers the environment offers:
\* the second differs from the first in title and abstract, the third in
\* the updated timestamp only.
Contents ==
    { [title |-> T1, abstract |-> T2, updated |-> 1],
      [title |-> T2, abstract |-> T1, updated |-> 1],
      [title |-> T1, abstract |-> T2, updated |-> 2] }

\* ArxivPaper, reduced to the fields the cache reads.
Papers ==
    { [id |-> i, title |-> c.title, abstract |-> c.abstract, updated |-> c.updated] :
        i \in Ids, c \in Contents }

\* significance scores, in tenths
Scores == {3, 9}

\* PaperAnalysis, reduced to its key and the score the cache copies.
Analyses == [paper_id : Ids, significance_score : Scores]

AnalysesOf(id) == {a \in Analyses : a.paper_id = id}

\* ------------------------------------------------------------ helpers ----
EmptyDict == <<>>

\* del d[k] guarded by  if k in d
Drop(d, k) == [i \in (DOMAIN d) \ {k} |-> d[i]]

\* d[k] = v
Store(d, k, v) == [i \in (DOMAIN d) \cup {k} |-> IF i = k THEN v ELSE d[i]]

Restrict(d, ks) == [i \in ks |-> d[i]]

\* A JSON file: holding a dict, or missing.
FileOf(d) == [state |-> "ok", data |-> d]
NoFile == [state |-> "missing", data |-> EmptyDict]

\* A pickle file: a complete pickle of obj, or a truncated one.
Pickle(obj) == [readable |-> TRUE, obj |-> obj]
Truncated(obj) == [readable |-> FALSE, obj |-> obj]

\* The metadata entry cache_analysis builds.  ts says what
\* datetime.fromisoformat makes of 'analyzed_at': "aware" (a timestamp with
\* a UTC offset, as cache_analysis writes it), "invalid" (key missing or
\* text unparsable: KeyError / ValueError), "naive" (parses, but has no
\* offset, so comparing it with the aware cutoff raises TypeError).
Entry(ts, t, title, score) ==
    [ts |-> ts, analyzed_at |-> t, title |-> title, significance_score |-> score]

\* paper.title[:100]; the titles of the model are shorter than that.
TitleCut == 100
Truncate(title) == SubSeq(title, 1, IF Len(title) < TitleCut THEN Len(title) ELSE TitleCut)

\* updated.isoformat()
IsoFormat(u) == <<ToString(u)>>

\* semaphore = asyncio.Semaphore(3)
SemaphoreValue == 3

\* self.max_retries = 5
max_retries == 5
\* self.retry_delay = 30  # seconds
BaseDelay == 30
\* min(self.retry_delay * 2, 300)
MaxDelay == 300

\* -------------------------------------------------------------- state ----
VARIABLES
    analyzed_papers,       \* self.analyzed_papers: id -> metadata entry
    paper_hashes,          \* self.paper_hashes: id -> content hash
    analyzed_papers_file,  \* metadata/analyzed_papers.json
    paper_hashes_file,     \* metadata/paper_hashes.json
    paper_files,           \* papers/<id>.pkl
    analysis_files,        \* analyses/<id>.pkl
    now,                   \* datetime.now(timezone.utc), in hours
    pc,                    \* where the caller is: "idle", "returned" while it
                           \* holds a result, or a place inside a running call
    last                   \* the call that returned last, with its result

\* The state of the other components; the cache operations leave it alone.
VARIABLES
    tasks,                 \* analyze_paper_batch: the tasks created for the papers
    semaphore              \* analyze_paper_batch: the value of asyncio.Semaphore(3)

cacheVars == <<analyzed_papers, paper_hashes, analyzed_papers_file, paper_hashes_file,
               paper_files, analysis_files, now>>

VARIABLES
    running,               \* ResearchAgent.running
    scheduler_thread,      \* where the thread of run_scheduler is
    jobs,                  \* the jobs of schedule_tasks: daily digest, weekly summary
    cycle_tasks,           \* the cycles running as tasks of the event loop
    signals                \* where the main thread was at each SIGINT / SIGTERM so far

VARIABLES
    retry_count,           \* run_agent_with_recovery: retry_count
    retry_delay,           \* ResilientAgent.retry_delay, in seconds
    resilient_running,     \* ResilientAgent.running
    signal_handler,        \* whose handler SIGINT / SIGTERM are bound to
    sleeps,                \* the delays run_agent_with_recovery has slept, in order
    slept,                 \* seconds of the current sleep that have passed
    health_status          \* "status" in health_status.json

VARIABLES
    fetched_papers,        \* fetch_and_analyze_papers: papers
    filtered_papers,       \* fetch_and_analyze_papers: filtered_papers
    analyses,              \* fetch_and_analyze_papers: analyses, as the batch returned them
    significant_analyses,  \* fetch_and_analyze_papers: significant_analyses
    digests,               \* the calls of generate_and_distribute_digest in this cycle
    service_calls,         \* per cycle so far, the ids of the papers sent to the service
    config,                \* ConfigManager._config: the research filters loaded at start
    research_config,       \* run_weekly_summary: research_config, its own ResearchConfig
    days_back,             \* fetch_papers: days_back as this cycle passed it (0: no call yet)
    response               \* fetch_papers: what the catalog request of this cycle came to

analyzerVars == <<tasks, semaphore>>

cycleVars == <<fetched_papers, filtered_papers, analyses, significant_analyses, digests,
               service_calls, config, research_config, days_back, response>>

agentVars == <<running, scheduler_thread, jobs, cycle_tasks, signals>>

resilientVars == <<retry_count, retry_delay, resilient_running, signal_handler, sleeps,
                   slept, health_status>>

otherVars == <<analyzerVars, agentVars, resilientVars, cycleVars>>

vars == <<cacheVars, pc, last, otherVars>>

\* The cache, memory and disk, as one value the operations map to a new one.
Cur ==
    [analyzed_papers |-> analyzed_papers,
     paper_hashes |-> paper_hashes,
     analyzed_papers_file |-> analyzed_papers_file,
     paper_hashes_file |-> paper_hashes_file,
     paper_files |-> paper_files,
     analysis_files |-> analysis_files]

\* ---------------------------------------------------------- operations ----
\* f"{paper.title}|{paper.abstract}|{paper.updated.isoformat()}", digested
\* with md5.  md5 is taken to be injective on the strings of the model, so
\* the digest is the string itself.
CalculatePaperHash(paper) ==
    paper.title \o <<"|">> \o paper.abstract \o <<"|">> \o IsoFormat(paper.updated)

\* datetime.now(timezone.utc) - timedelta(hours=self.ttl_hours)
CutoffTime == now - ttl_hours

\* analyzed_time > cutoff_time
Fresh(entry) == entry.analyzed_at > CutoffTime

\* Mutant of RemovePaperFiles: removes every pickle, whatever its id.
RemoveEveryPaperFile(s, paper_id) ==
    [s EXCEPT !.paper_files = EmptyDict, !.analysis_files = EmptyDict]

RemovePaperFiles(s, paper_id) ==
    [s EXCEPT !.paper_files = Drop(@, paper_id),
              !.analysis_files = Drop(@, paper_id)]

SaveMetadata(s) ==
    [s EXCEPT !.analyzed_papers_file = FileOf(s.analyzed_papers),
              !.paper_hashes_file = FileOf(s.paper_hashes)]

\* Mutant of RemoveFromCache: forgets the hash record.
RemoveFromCacheKeepHash(s, paper_id) ==
    SaveMetadata(
        RemovePaperFiles([s EXCEPT !.analyzed_papers = Drop(@, paper_id)], paper_id))

RemoveFromCache(s, paper_id) ==
    SaveMetadata(
        RemovePaperFiles(
            [s EXCEPT !.analyzed_papers = Drop(@, paper_id),
                      !.paper_hashes = Drop(@, paper_id)],
            paper_id))

\* The loop of _clean_expired_entries raises TypeError at the first entry
\* with a naive timestamp.  The entries it visits before that are a prefix
\* of the dict's order, which the model does not fix: any set of the other
\* entries.  Without a naive entry the loop visits them all.
Visits(data) ==
    LET naive == {i \in DOMAIN data : data[i].ts = "naive"}
    IN  IF naive = {} THEN {DOMAIN data} ELSE SUBSET ((DOMAIN data) \ naive)

\* Mutant of CleanExpiredEntries: stops evicting after the first expired
\* entry and keeps the other expired ones.
CleanFirstExpired(s, data, visited) ==
    LET aware == {i \in visited : data[i].ts = "aware"}
        stale == {i \in aware : ~Fresh(data[i])}
        expired == IF stale = {} THEN {} ELSE {CHOOSE i \in stale : TRUE}
        kept == aware \ expired
    IN  [cleaned |-> Restrict(data, kept),
         s |-> [s EXCEPT !.paper_files = Restrict(@, (DOMAIN @) \ expired),
                         !.analysis_files = Restrict(@, (DOMAIN @) \ expired)],
         raised |-> visited # DOMAIN data]

\* _clean_expired_entries over the entries `visited`: the fresh ones are
\* kept, the files of the expired ones are removed, the invalid ones are
\* skipped (dropped, their files and hash record left alone).
CleanExpiredEntries(s, data, visited) ==
    LET aware == {i \in visited : data[i].ts = "aware"}
        kept == {i \in aware : Fresh(data[i])}
        expired == aware \ kept
    IN  [cleaned |-> Restrict(data, kept),
         s |-> [s EXCEPT !.paper_files = Restrict(@, (DOMAIN @) \ expired),
                         !.analysis_files = Restrict(@, (DOMAIN @) \ expired)],
         raised |-> visited # DOMAIN data]

\* _load_analyzed_papers: {} when the file is missing or the cleaning
\* raised; the files the cleaning removed before raising stay removed.
LoadAnalyzedPapers(s, visited) ==
    IF s.analyzed_papers_file.state = "ok"
    THEN LET r == CleanExpiredEntries(s, s.analyzed_papers_file.data, visited)
         IN  [r.s EXCEPT !.analyzed_papers = IF r.raised THEN EmptyDict ELSE r.cleaned]
    ELSE [s EXCEPT !.analyzed_papers = EmptyDict]

LoadPaperHashes(s) ==
    [s EXCEPT !.paper_hashes =
        IF s.paper_hashes_file.state = "ok" THEN s.paper_hashes_file.data ELSE EmptyDict]

\* The choices of `visited` the load of this disk can make.
LoadVisits(s) ==
    IF s.analyzed_papers_file.state = "ok"
    THEN Visits(s.analyzed_papers_file.data)
    ELSE {{}}

\* CacheManager.__init__ over the disk of s
Construct(s, visited) == LoadPaperHashes(LoadAnalyzedPapers(s, visited))

\* Mutant of IsPaperAnalyzed: reports an expired entry but leaves it in place.
IsPaperAnalyzedKeepExpired(s, paper) ==
    LET paper_id == paper.id
        hash_ok == /\ paper_id \in DOMAIN s.paper_hashes
                   /\ s.paper_hashes[paper_id] = CalculatePaperHash(paper)
        metadata == s.analyzed_papers[paper_id]
    IN  IF paper_id \notin DOMAIN s.analyzed_papers
        THEN [ret |-> FALSE, why |-> "absent", s |-> s, raised |-> FALSE]
        ELSE IF ~hash_ok
        THEN [ret |-> FALSE, why |-> "changed", s |-> RemoveFromCache(s, paper_id),
              raised |-> FALSE]
        ELSE IF metadata.ts = "invalid"
        THEN [ret |-> FALSE, why |-> "invalid", s |-> RemoveFromCache(s, paper_id),
              raised |-> FALSE]
        ELSE IF metadata.ts = "naive"
        THEN [ret |-> FALSE, why |-> "typeerror", s |-> s, raised |-> TRUE]
        ELSE IF ~Fresh(metadata)
        THEN [ret |-> FALSE, why |-> "expired", s |-> s, raised |-> FALSE]
        ELSE [ret |-> TRUE, why |-> "valid", s |-> s, raised |-> FALSE]

\* is_paper_analyzed: the value returned, the branch taken, the cache left
\* behind, and whether an exception escapes.
IsPaperAnalyzed(s, paper) ==
    LET paper_id == paper.id
        hash_ok == /\ paper_id \in DOMAIN s.paper_hashes
                   /\ s.paper_hashes[paper_id] = CalculatePaperHash(paper)
        metadata == s.analyzed_papers[paper_id]
    IN  IF paper_id \notin DOMAIN s.analyzed_papers
        THEN [ret |-> FALSE, why |-> "absent", s |-> s, raised |-> FALSE]
        ELSE IF ~hash_ok
        THEN [ret |-> FALSE, why |-> "changed", s |-> RemoveFromCache(s, paper_id),
              raised |-> FALSE]
        ELSE IF metadata.ts = "invalid"
        THEN [ret |-> FALSE, why |-> "invalid", s |-> RemoveFromCache(s, paper_id),
              raised |-> FALSE]
        ELSE IF metadata.ts = "naive"
        THEN [ret |-> FALSE, why |-> "typeerror", s |-> s, raised |-> TRUE]
        ELSE IF ~Fresh(metadata)
        THEN [ret |-> FALSE, why |-> "expired", s |-> RemoveFromCache(s, paper_id),
              raised |-> FALSE]
        ELSE [ret |-> TRUE, why |-> "valid", s |-> s, raised |-> FALSE]

\* Mutant of GetCachedAnalysis: a missing pickle is reported absent, the
\* entry is left in place.
GetCachedAnalysisNoPurge(s, paper_id) ==
    IF paper_id \notin DOMAIN s.analyzed_papers
    THEN [ret |-> {}, why |-> "absent", s |-> s, raised |-> FALSE]
    ELSE IF paper_id \notin DOMAIN s.analysis_files
    THEN [ret |-> {}, why |-> "missing", s |-> s, raised |-> FALSE]
    ELSE IF ~s.analysis_files[paper_id].readable
    THEN [ret |-> {}, why |-> "unreadable", s |-> RemoveFromCache(s, paper_id),
          raised |-> FALSE]
    ELSE [ret |-> {s.analysis_files[paper_id].obj}, why |-> "hit", s |-> s,
          raised |-> FALSE]

\* get_cached_analysis: ret is {} for None and {analysis} otherwise.
GetCachedAnalysis(s, paper_id) ==
    IF paper_id \notin DOMAIN s.analyzed_papers
    THEN [ret |-> {}, why |-> "absent", s |-> s, raised |-> FALSE]
    ELSE IF paper_id \notin DOMAIN s.analysis_files
    THEN [ret |-> {}, why |-> "missing", s |-> RemoveFromCache(s, paper_id),
          raised |-> FALSE]
    ELSE IF ~s.analysis_files[paper_id].readable
    THEN [ret |-> {}, why |-> "unreadable", s |-> RemoveFromCache(s, paper_id),
          raised |-> FALSE]
    ELSE [ret |-> {s.analysis_files[paper_id].obj}, why |-> "hit", s |-> s,
          raised |-> FALSE]

\* cache_analysis writes four files in order: papers/<id>.pkl,
\* analyses/<id>.pkl, then (after updating the two dicts in memory, in
\* _save_metadata) analyzed_papers.json and paper_hashes.json.
WriteSteps == 4

\* The cache after the first k of these writes.
CacheAnalysisUpTo(s, paper, analysis, k) ==
    LET paper_id == paper.id
        mem == [s EXCEPT
                   !.analyzed_papers =
                       Store(@, paper_id,
                             Entry("aware", now, Truncate(paper.title),
                                   analysis.significance_score)),
                   !.paper_hashes = Store(@, paper_id, CalculatePaperHash(paper))]
        s2 == IF k >= 2 THEN mem ELSE s
    IN  [s2 EXCEPT
            !.paper_files = IF k >= 1 THEN Store(@, paper_id, Pickle(paper)) ELSE @,
            !.analysis_files = IF k >= 2 THEN Store(@, paper_id, Pickle(analysis)) ELSE @,
            !.analyzed_papers_file = IF k >= 3 THEN FileOf(mem.analyzed_papers) ELSE @,
            !.paper_hashes_file = IF k >= 4 THEN FileOf(mem.paper_hashes) ELSE @]

CacheAnalysis(s, paper, analysis) == CacheAnalysisUpTo(s, paper, analysis, WriteSteps)

\* Mutant of FilterLoop: collects the new papers in reverse order.
RECURSIVE FilterLoopPrepend(_, _, _)
FilterLoopPrepend(s, papers, new_papers) ==
    IF papers = <<>>
    THEN [new_papers |-> new_papers, s |-> s, raised |-> FALSE]
    ELSE LET r == IsPaperAnalyzed(s, Head(papers))
         IN  IF r.raised
             THEN [new_papers |-> <<>>, s |-> r.s, raised |-> TRUE]
             ELSE FilterLoopPrepend(r.s, Tail(papers),
                                    IF r.ret THEN new_papers
                                    ELSE <<Head(papers)>> \o new_papers)

\* The loop of filter_new_papers over the papers still to visit, with the
\* new_papers collected so far.
RECURSIVE FilterLoop(_, _, _)
FilterLoop(s, papers, new_papers) ==
    IF papers = <<>>
    THEN [new_papers |-> new_papers, s |-> s, raised |-> FALSE]
    ELSE LET r == IsPaperAnalyzed(s, Head(papers))
         IN  IF r.raised
             THEN [new_papers |-> <<>>, s |-> r.s, raised |-> TRUE]
             ELSE FilterLoop(r.s, Tail(papers),
                             IF r.ret THEN new_papers
                             ELSE Append(new_papers, Head(papers)))

\* filter_new_papers: the papers kept, and the cache the calls of
\* is_paper_analyzed leave behind.
FilterNewPapers(s, papers) == FilterLoop(s, papers, <<>>)

\* cleanup_cache: the cache left behind and the counts returned.
Counts(before, after) ==
    [removed_entries |-> Cardinality(DOMAIN before) - Cardinality(DOMAIN after),
     remaining_entries |-> Cardinality(DOMAIN after)]

CleanupCache(s, force, visited) ==
    IF force
    THEN [s |-> SaveMetadata([s EXCEPT !.analyzed_papers = EmptyDict,
                                       !.paper_hashes = EmptyDict,
                                       !.paper_files = EmptyDict,
                                       !.analysis_files = EmptyDict]),
          ret |-> Counts(s.analyzed_papers, EmptyDict),
          raised |-> FALSE]
    ELSE LET r == CleanExpiredEntries(s, s.analyzed_papers, visited)
         IN  IF r.raised
             THEN [s |-> r.s, ret |-> Counts(EmptyDict, EmptyDict), raised |-> TRUE]
             ELSE [s |-> SaveMetadata([r.s EXCEPT !.analyzed_papers = r.cleaned]),
                   ret |-> Counts(s.analyzed_papers, r.cleaned),
                   raised |-> FALSE]

\* ------------------------------------------------------- initial disks ----
\* What a cache directory left by an earlier run holds for one id:
\*   "none"     nothing
\*   "expired"  a complete entry, analysed ttl_hours before the start
\*   "invalid"  an entry whose 'analyzed_at' is missing or unparsable
\*   "naive"    an entry whose 'analyzed_at' has no UTC offset
\*   "no_blob"  an entry whose analysis pickle is gone
\*   "bad_blob" an entry whose analysis pickle is truncated
Shapes == {"none", "expired", "invalid", "naive", "no_blob", "bad_blob"}

LegacyPaper(id) == [id |-> id, title |-> T1, abstract |-> T2, updated |-> 1]
LegacyAnalysis(id) == [paper_id |-> id, significance_score |-> 3]

LegacyEntry(id, shape) ==
    Entry(IF shape \in {"invalid", "naive"} THEN shape ELSE "aware",
          IF shape = "expired" THEN 0 - ttl_hours ELSE 0,
          Truncate(LegacyPaper(id).title),
          LegacyAnalysis(id).significance_score)

Disk(shape) ==
    LET there == {i \in Ids : shape[i] # "none"}
        entries == [i \in there |-> LegacyEntry(i, shape[i])]
    IN  [analyzed_papers |-> EmptyDict,
         paper_hashes |-> EmptyDict,
         analyzed_papers_file |-> IF there = {} THEN NoFile ELSE FileOf(entries),
         paper_hashes_file |->
             IF there = {} THEN NoFile
             ELSE FileOf([i \in there |-> CalculatePaperHash(LegacyPaper(i))]),
         paper_files |-> [i \in there |-> Pickle(LegacyPaper(i))],
         analysis_files |->
             [i \in {j \in there : shape[j] # "no_blob"} |->
                 IF shape[i] = "bad_blob" THEN Truncated(LegacyAnalysis(i))
                 ELSE Pickle(LegacyAnalysis(i))]]

InitialDisks == {Disk(shape) : shape \in [Ids -> Shapes]}

\* ------------------------------------------------------------ actions ----
NoCall == [op |-> "none"]

Apply(s) ==
    /\ analyzed_papers' = s.analyzed_papers
    /\ paper_hashes' = s.paper_hashes
    /\ analyzed_papers_file' = s.analyzed_papers_file
    /\ paper_hashes_file' = s.paper_hashes_file
    /\ paper_files' = s.paper_files
    /\ analysis_files' = s.analysis_files

\* The other components before they are started: no batch is being analysed.
AnalyzerIdle ==
    /\ tasks = <<>>
    /\ semaphore = SemaphoreValue

\* ResearchAgent.__init__: not running, nothing scheduled, no thread.
JobNames == {"daily_digest", "weekly_summary"}

AgentIdle ==
    /\ running = FALSE
    /\ scheduler_thread = "none"
    /\ jobs = [j \in JobNames |-> "enabled"]
    /\ cycle_tasks = {}
    /\ signals = <<>>

\* ResilientAgent.__init__
ResilientIdle ==
    /\ retry_count = 0
    /\ retry_delay = BaseDelay
    /\ resilient_running = TRUE
    /\ signal_handler = "ResilientAgent"
    /\ sleeps = <<>>
    /\ slept = 0
    /\ health_status = "validated"

\* ResearchConfig.days_back where no ResearchConfig is held.
NoResearchConfig == [days_back |-> 0]

\* _get_default_config()['research']['filters']
DefaultFilters == [days_back |-> 1]

\* ResearchAgent before any cycle has run.
CycleLocalsIdle ==
    /\ fetched_papers = <<>>
    /\ filtered_papers = <<>>
    /\ analyses = <<>>
    /\ significant_analyses = <<>>
    /\ digests = <<>>
    /\ service_calls = <<>>
    /\ research_config = NoResearchConfig
    /\ days_back = 0
    /\ response = "none"

CycleIdle == CycleLocalsIdle /\ config = DefaultFilters

OthersIdle == AnalyzerIdle /\ AgentIdle /\ ResilientIdle /\ CycleIdle

\* The state after CacheManager(cache_dir, ttl_hours) over an initial disk.
Init ==
    /\ now = 0
    /\ pc = "idle"
    /\ last = NoCall
    /\ OthersIdle
    /\ \E d \in InitialDisks : \E visited \in LoadVisits(d) :
          LET s == Construct(d, visited)
          IN  /\ analyzed_papers = s.analyzed_papers
              /\ paper_hashes = s.paper_hashes
              /\ analyzed_papers_file = s.analyzed_papers_file
              /\ paper_hashes_file = s.paper_hashes_file
              /\ paper_files = s.paper_files
              /\ analysis_files = s.analysis_files

\* cache.cache_analysis(paper, analysis)
Put ==
    /\ pc = "idle"
    /\ \E paper \in Papers : \E analysis \in AnalysesOf(paper.id) :
          /\ Apply(CacheAnalysis(Cur, paper, analysis))
          /\ last' = [op |-> "put", paper |-> paper, analysis |-> analysis]
    /\ pc' = "returned"
    /\ UNCHANGED <<now, otherVars>>

\* cache.is_paper_analyzed(paper)
IsAnalyzed ==
    /\ pc = "idle"
    /\ \E paper \in Papers :
          LET r == IsPaperAnalyzed(Cur, paper)
          IN  /\ Apply(r.s)
              /\ last' = [op |-> "is_analyzed", paper |-> paper, ret |-> r.ret,
                          why |-> r.why, raised |-> r.raised]
    /\ pc' = "returned"
    /\ UNCHANGED <<now, otherVars>>

\* cache.get_cached_analysis(paper_id)
Get ==
    /\ pc = "idle"
    /\ \E paper_id \in Ids :
          LET r == GetCachedAnalysis(Cur, paper_id)
          IN  /\ Apply(r.s)
              /\ last' = [op |-> "get", paper_id |-> paper_id, ret |-> r.ret,
                          why |-> r.why, raised |-> r.raised]
    /\ pc' = "returned"
    /\ UNCHANGED <<now, otherVars>>

\* cache.cleanup_cache(force=False)
EvictExpired ==
    /\ pc = "idle"
    /\ \E visited \in Visits(analyzed_papers) :
          LET r == CleanupCache(Cur, FALSE, visited)
          IN  /\ Apply(r.s)
              /\ last' = [op |-> "evict_expired", ret |-> r.ret, raised |-> r.raised]
    /\ pc' = "returned"
    /\ UNCHANGED <<now, otherVars>>

\* cache.cleanup_cache(force=True)
ForceCleanup ==
    /\ pc = "idle"
    /\ LET r == CleanupCache(Cur, TRUE, {})
       IN  /\ Apply(r.s)
           /\ last' = [op |-> "force_cleanup", ret |-> r.ret, raised |-> r.raised]
    /\ pc' = "returned"
    /\ UNCHANGED <<now, otherVars>>

\* cache.filter_new_papers(papers)
PaperLists == UNION {[1..n -> Papers] : n \in 0..MaxPapers}

FilterNew ==
    /\ pc = "idle"
    /\ \E papers \in PaperLists :
          LET r == FilterNewPapers(Cur, papers)
          IN  /\ Apply(r.s)
              /\ last' = [op |-> "filter_new", papers |-> papers,
                          ret |-> r.new_papers, raised |-> r.raised]
    /\ pc' = "returned"
    /\ UNCHANGED <<now, otherVars>>

\* The process ends between two calls and a new CacheManager is constructed
\* over the same directory.
Restart ==
    /\ pc = "idle"
    /\ \E visited \in LoadVisits(Cur) : Apply(Construct(Cur, visited))
    /\ last' = [op |-> "restart"]
    /\ pc' = "returned"
    /\ UNCHANGED <<now, otherVars>>

\* The caller takes the result.
Return ==
    /\ pc = "returned"
    /\ pc' = "idle"
    /\ last' = NoCall
    /\ UNCHANGED <<cacheVars, otherVars>>

\* An hour passes.
Tick ==
    /\ pc = "idle"
    /\ now < MaxTime
    /\ now' = now + 1
    /\ UNCHANGED <<analyzed_papers, paper_hashes, analyzed_papers_file,
                   paper_hashes_file, paper_files, analysis_files, pc, last,
                   otherVars>>

Next ==
    \/ Put
    \/ IsAnalyzed
    \/ Get
    \/ EvictExpired
    \/ ForceCleanup
    \/ Restart
    \/ Return
    \/ Tick

Spec == Init /\ [][Next]_vars

\* The id of the paper whose put is interrupted; the other id is a bystander.
CrashedId == "p1"

\* The process dies inside cache_analysis(paper, analysis) between two of
\* its writes, after `writes` of them, and a new CacheManager is constructed
\* over what is on disk.
PutCrash ==
    /\ pc = "idle"
    /\ \E paper \in {p \in Papers : p.id = CrashedId} :
       \E analysis \in AnalysesOf(paper.id) :
       \E writes \in 1..(WriteSteps - 1) :
          LET d == CacheAnalysisUpTo(Cur, paper, analysis, writes)
          IN  /\ \E visited \in LoadVisits(d) : Apply(Construct(d, visited))
              /\ last' = [op |-> "put_crash", paper |-> paper, analysis |-> analysis,
                          writes |-> writes]
    /\ pc' = "returned"
    /\ UNCHANGED <<now, otherVars>>

CrashNext ==
    \/ Next
    \/ PutCrash

CrashSpec == Init /\ [][CrashNext]_vars

\* The cache as the cycle's de-duplication step drives it: analyses are
\* stored, time passes, and lists of fetched papers are filtered.
FilterNext ==
    \/ Put
    \/ FilterNew
    \/ Return
    \/ Tick

FilterSpec == Init /\ [][FilterNext]_vars

\* ------------------------------------------------------- analyze_paper ----
\* The text the reasoning service answers with is a sequence of tokens:
\* braces, commas, other text ("x"), the blank " ".join puts between the
\* fragments, and "key": number members of a JSON object.  Scores are in
\* tenths: 15 is 1.5 and -2 is -0.2.
Member ==
    [tok \in {"rel:15", "sig:-2", "sig:4", "sig:9", "nov:5"} |->
        CASE tok = "rel:15" -> [key |-> "relevance_score", value |-> 15]
          [] tok = "sig:-2" -> [key |-> "significance_score", value |-> 0 - 2]
          [] tok = "sig:4" -> [key |-> "significance_score", value |-> 4]
          [] tok = "sig:9" -> [key |-> "significance_score", value |-> 9]
          [] tok = "nov:5" -> [key |-> "novelty_score", value |-> 5]]

Tokens == {"{", "}", ",", "x"} \cup DOMAIN Member

\* The text fragments collected from the messages of one query, one token
\* each.
Responses == UNION {[1..n -> Tokens] : n \in 0..MaxFragments}

\* What one call of the service does: it throws, or it yields fragments.
Throws == [kind |-> "throws", responses |-> <<>>]
Answers(responses) == [kind |-> "answers", responses |-> responses]
ServiceOutcomes == {Throws} \cup {Answers(r) : r \in Responses}

\* " ".join(responses)
RECURSIVE Join(_)
Join(responses) ==
    IF Len(responses) <= 1 THEN responses
    ELSE <<Head(responses), " ">> \o Join(Tail(responses))

\* str.find and str.rfind: the 0-based index of the first (last) ch, or -1
Find(text, ch) ==
    LET at == {i \in 1..Len(text) : text[i] = ch}
    IN  IF at = {} THEN 0 - 1 ELSE (CHOOSE i \in at : \A j \in at : i <= j) - 1

RFind(text, ch) ==
    LET at == {i \in 1..Len(text) : text[i] = ch}
    IN  IF at = {} THEN 0 - 1 ELSE (CHOOSE i \in at : \A j \in at : i >= j) - 1

\* text[start:end] for 0 <= start and 0 <= end
Slice(text, start, end) == SubSeq(text, start + 1, end)

NotBlank(tok) == tok # " "

\* dict.get(key, default)
DictGet(d, key, default) == IF key \in DOMAIN d THEN d[key] ELSE default

\* json.loads: blanks between tokens are skipped; the text is a JSON object
\* when it is "{", members separated by ",", "}"; a key given twice keeps
\* its last value.  Anything else is a JSONDecodeError.
JSONLoads(text) ==
    LET toks == SelectSeq(text, NotBlank)
        n == Len(toks)
        inner == SubSeq(toks, 2, n - 1)
        m == Len(inner)
        wellformed ==
            /\ n >= 2
            /\ toks[1] = "{"
            /\ toks[n] = "}"
            /\ \/ m = 0
               \/ /\ m % 2 = 1
                  /\ \A i \in 1..m :
                        IF i % 2 = 1 THEN inner[i] \in DOMAIN Member
                        ELSE inner[i] = ","
        keys == {Member[inner[i]].key : i \in {j \in 1..m : j % 2 = 1}}
        lastOf(k) == CHOOSE i \in 1..m :
                        /\ i % 2 = 1
                        /\ Member[inner[i]].key = k
                        /\ \A j \in (i + 1)..m :
                              j % 2 = 1 => Member[inner[j]].key # k
    IN  IF wellformed
        THEN [ok |-> TRUE, data |-> [k \in keys |-> Member[inner[lastOf(k)]].value]]
        ELSE [ok |-> FALSE, data |-> EmptyDict]

\* analysis_data.get(..., 0.5)
DefaultScore == 5

\* PaperAnalysis, reduced to the paper id and the three scores.
PaperAnalysis(paper_id, analysis_data) ==
    [paper_id |-> paper_id,
     relevance_score |-> DictGet(analysis_data, "relevance_score", DefaultScore),
     significance_score |-> DictGet(analysis_data, "significance_score", DefaultScore),
     novelty_score |-> DictGet(analysis_data, "novelty_score", DefaultScore)]

\* Mutant of AnalyzePaper: only the JSONDecodeError is caught, an exception
\* of the service call leaves the function.
AnalyzePaperUncaught(paper, outcome) ==
    LET responses == outcome.responses
        full_response == Join(responses)
        json_start == Find(full_response, "{")
        json_end == RFind(full_response, "}") + 1
        json_str == Slice(full_response, json_start, json_end)
        loaded == JSONLoads(json_str)
    IN  IF outcome.kind = "throws"
        THEN [ret |-> {}, why |-> "exception", raised |-> TRUE]
        ELSE IF responses = <<>>
        THEN [ret |-> {}, why |-> "no_response", raised |-> FALSE]
        ELSE IF json_start = 0 - 1 \/ json_end = 0
        THEN [ret |-> {}, why |-> "no_json", raised |-> FALSE]
        ELSE IF ~loaded.ok
        THEN [ret |-> {}, why |-> "json_error", raised |-> FALSE]
        ELSE [ret |-> {PaperAnalysis(paper.id, loaded.data)}, why |-> "analysis",
              raised |-> FALSE]

\* analyze_paper(paper), the service behaving as `outcome`: ret is {} for
\* None and {analysis} otherwise; why names the return taken; raised says
\* whether an exception leaves the function.
AnalyzePaper(paper, outcome) ==
    LET responses == outcome.responses
        full_response == Join(responses)
        json_start == Find(full_response, "{")
        json_end == RFind(full_response, "}") + 1
        json_str == Slice(full_response, json_start, json_end)
        loaded == JSONLoads(json_str)
    IN  IF outcome.kind = "throws"
        THEN [ret |-> {}, why |-> "exception", raised |-> FALSE]
        ELSE IF responses = <<>>
        THEN [ret |-> {}, why |-> "no_response", raised |-> FALSE]
        ELSE IF json_start = 0 - 1 \/ json_end = 0
        THEN [ret |-> {}, why |-> "no_json", raised |-> FALSE]
        ELSE IF ~loaded.ok
        THEN [ret |-> {}, why |-> "json_error", raised |-> FALSE]
        ELSE [ret |-> {PaperAnalysis(paper.id, loaded.data)}, why |-> "analysis",
              raised |-> FALSE]

\* analyzer.analyze_paper(paper)
AnalyzeOne ==
    /\ pc = "idle"
    /\ \E paper_id \in Ids : \E outcome \in ServiceOutcomes :
          LET r == AnalyzePaper([id |-> paper_id], outcome)
          IN  last' = [op |-> "analyze_paper", paper_id |-> paper_id,
                       outcome |-> outcome, ret |-> r.ret, why |-> r.why,
                       raised |-> r.raised]
    /\ pc' = "returned"
    /\ UNCHANGED <<cacheVars, otherVars>>

\* A fresh cache directory: nothing on disk, nothing in memory.
FreshCache ==
    \E s \in {Construct(Disk([i \in Ids |-> "none"]), {})} :
        /\ analyzed_papers = s.analyzed_papers
        /\ paper_hashes = s.paper_hashes
        /\ analyzed_papers_file = s.analyzed_papers_file
        /\ paper_hashes_file = s.paper_hashes_file
        /\ paper_files = s.paper_files
        /\ analysis_files = s.analysis_files
        /\ now = 0

AnalyzeInit ==
    /\ pc = "idle"
    /\ last = NoCall
    /\ FreshCache
    /\ OthersIdle

AnalyzeNext ==
    \/ AnalyzeOne
    \/ Return

AnalyzeSpec == AnalyzeInit /\ [][AnalyzeNext]_vars

\* ------------------------------------------------- analyze_paper_batch ----
\* The papers of a batch of n: distinct ids, "1" to "n".
BatchPapers(n) == [i \in 1..n |-> [id |-> ToString(i)]]

\* What the service does for the papers of a batch: it throws, yields no
\* fragment, an empty JSON object, or an object with a significance score.
BatchOutcomes ==
    {Throws, Answers(<<>>), Answers(<<"{", "}">>), Answers(<<"{", "sig:9", "}">>)}

\* Mutant of Locked: the semaphore never makes a task wait.
NeverLocked(value) == FALSE

\* async with semaphore: a task waits while the value is 0
Locked(value) == value <= 0

IsPaperAnalysis(result) == result # {}

\* Mutant of FilterResults: the analyses up to the first failed task.
FilterResultsUntilFailure(results) ==
    LET failed == {i \in 1..Len(results) : ~IsPaperAnalysis(results[i])}
        n == IF failed = {} THEN Len(results)
             ELSE (CHOOSE i \in failed : \A j \in failed : i <= j) - 1
    IN  [i \in 1..n |-> CHOOSE a \in results[i] : TRUE]

\* The loop over the results of asyncio.gather(*tasks, return_exceptions=True):
\* the PaperAnalysis results are kept, in the order of the tasks; None is
\* dropped (and so is an exception, which analyze_paper never lets out).
FilterResults(results) ==
    LET kept == SelectSeq(results, IsPaperAnalysis)
    IN  [i \in 1..Len(kept) |-> CHOOSE a \in kept[i] : TRUE]

\* analyze_paper_batch(papers): the semaphore and one task per paper are
\* created; the caller then waits in gather.
StartBatch ==
    /\ pc = "idle"
    /\ \E n \in 0..MaxBatch :
          /\ tasks' = [i \in 1..n |->
                          [paper |-> BatchPapers(n)[i], pc |-> "created",
                           outcome |-> Throws, result |-> {}]]
          /\ last' = [op |-> "analyze_paper_batch", papers |-> BatchPapers(n)]
    /\ semaphore' = SemaphoreValue
    /\ pc' = "gather"
    /\ UNCHANGED <<cacheVars, cycleVars, agentVars, resilientVars>>

\* A task enters the semaphore and calls analyze_paper: its call of the
\* reasoning service is in flight.
Acquire ==
    /\ pc = "gather"
    /\ \E i \in 1..Len(tasks) :
          /\ tasks[i].pc = "created"
          /\ ~Locked(semaphore)
          /\ tasks' = [tasks EXCEPT ![i].pc = "in_flight"]
    /\ semaphore' = semaphore - 1
    /\ UNCHANGED <<cacheVars, cycleVars, pc, last, agentVars, resilientVars>>

\* Mutant of Complete: a task whose service call threw leaves without giving
\* its permit back.
CompleteHoldingPermit ==
    /\ pc = "gather"
    /\ \E i \in 1..Len(tasks) : \E outcome \in BatchOutcomes :
          /\ tasks[i].pc = "in_flight"
          /\ tasks' = [tasks EXCEPT
                          ![i].pc = "done",
                          ![i].outcome = outcome,
                          ![i].result = AnalyzePaper(tasks[i].paper, outcome).ret]
          /\ semaphore' = IF outcome = Throws THEN semaphore ELSE semaphore + 1
    /\ UNCHANGED <<cacheVars, cycleVars, pc, last, agentVars, resilientVars>>

\* The service call of a task ends, analyze_paper returns and the task
\* leaves the semaphore.
Complete ==
    /\ pc = "gather"
    /\ \E i \in 1..Len(tasks) : \E outcome \in BatchOutcomes :
          /\ tasks[i].pc = "in_flight"
          /\ tasks' = [tasks EXCEPT
                          ![i].pc = "done",
                          ![i].outcome = outcome,
                          ![i].result = AnalyzePaper(tasks[i].paper, outcome).ret]
    /\ semaphore' = semaphore + 1
    /\ UNCHANGED <<cacheVars, cycleVars, pc, last, agentVars, resilientVars>>

\* Every task is done: gather returns the results and analyze_paper_batch
\* returns the analyses among them.
Gather ==
    /\ pc = "gather"
    /\ \A i \in 1..Len(tasks) : tasks[i].pc = "done"
    /\ last' = [op |-> "analyze_paper_batch",
                papers |-> last.papers,
                outcomes |-> [i \in 1..Len(tasks) |-> tasks[i].outcome],
                ret |-> FilterResults([i \in 1..Len(tasks) |-> tasks[i].result])]
    /\ tasks' = <<>>
    /\ pc' = "returned"
    /\ UNCHANGED <<cacheVars, cycleVars, semaphore, agentVars, resilientVars>>

BatchNext ==
    \/ StartBatch
    \/ Acquire
    \/ Complete
    \/ Gather
    \/ Return

BatchSpec == AnalyzeInit /\ [][BatchNext]_vars

\* The event loop runs every task that can run: a created task enters the
\* semaphore when a permit is free, a service call in flight ends (each call
\* of the service ends, by a result or by an exception), gather returns when
\* every task is done, and the caller takes the result.
BatchLiveSpec ==
    /\ BatchSpec
    /\ WF_vars(Acquire)
    /\ WF_vars(Complete)
    /\ WF_vars(Gather)

\* ------------------------------------------------------ research agent ----
\* The process of research_agent.main(): the coroutine of the event loop
\* (its position is pc) and, in continuous mode, the thread of
\* run_scheduler.  pc is "idle" once ResearchAgent is constructed,
\* "main_loop" / "sleeping" in the loop of start_agent, "stopped" when
\* start_agent has returned, "fetch_and_analyze" / "publish" inside the
\* cycle of run_once, "returned" when run_once has returned its result, and
\* "exited" when the process has ended.
LoopThread == "event_loop"
SchedulerThread == "scheduler"

\* Mutant of SignalHandler: the handler Python installs by default, which
\* raises KeyboardInterrupt into the running coroutine.
DefaultIntHandler(position, flag) ==
    [pc |-> IF position = "idle" THEN "exited" ELSE "stopped", running |-> flag]

\* _signal_handler: clears the flag and returns to where the main thread was.
SignalHandler(position, flag) == [pc |-> position, running |-> FALSE]

\* asyncio.create_task(coro) needs the running event loop of the calling
\* thread: it starts a task when called on the loop's thread and raises
\* RuntimeError (no running event loop) on any other thread.
CreateTask(caller) == IF caller = LoopThread THEN "task" ELSE "RuntimeError"

\* A SIGINT or SIGTERM is delivered to the process.
Signal ==
    /\ pc # "exited"
    /\ Len(signals) < MaxSignals
    /\ signals' = Append(signals, pc)
    /\ pc' = SignalHandler(pc, running).pc
    /\ running' = SignalHandler(pc, running).running
    /\ UNCHANGED <<cacheVars, cycleVars, last, analyzerVars, resilientVars,
                   scheduler_thread, jobs, cycle_tasks>>

\* start_agent up to its loop: the flag is set, the enabled jobs are
\* scheduled and the scheduler thread is started.
StartAgent ==
    /\ pc = "idle"
    /\ pc' = "main_loop"
    /\ running' = TRUE
    /\ jobs' = [j \in JobNames |-> IF jobs[j] = "enabled" THEN "scheduled" ELSE jobs[j]]
    /\ scheduler_thread' = "check"
    /\ last' = [op |-> "start_agent"]
    /\ UNCHANGED <<cacheVars, cycleVars, analyzerVars, resilientVars, cycle_tasks, signals>>

\* while self.running: ... finally: self.running = False
MainLoop ==
    /\ pc = "main_loop"
    /\ pc' = IF running THEN "sleeping" ELSE "stopped"
    /\ running' = running
    /\ UNCHANGED <<cacheVars, cycleVars, last, analyzerVars, resilientVars,
                   scheduler_thread, jobs, cycle_tasks, signals>>

\* await asyncio.sleep(10) ends
MainWake ==
    /\ pc = "sleeping"
    /\ pc' = "main_loop"
    /\ UNCHANGED <<cacheVars, last, otherVars>>

\* The time of a scheduled job comes.
JobDue ==
    /\ pc # "exited"
    /\ \E j \in JobNames :
          /\ jobs[j] = "scheduled"
          /\ jobs' = [jobs EXCEPT ![j] = "due"]
    /\ UNCHANGED <<cacheVars, cycleVars, pc, last, analyzerVars, resilientVars,
                   running, scheduler_thread, cycle_tasks, signals>>

\* run_scheduler: while self.running
SchedulerCheck ==
    /\ scheduler_thread = "check"
    /\ scheduler_thread' = IF running THEN "run_pending" ELSE "finished"
    /\ UNCHANGED <<cacheVars, cycleVars, pc, last, analyzerVars, resilientVars,
                   running, jobs, cycle_tasks, signals>>

\* run_scheduler: schedule.run_pending() invokes a due job, which calls
\* asyncio.create_task on the scheduler thread; an exception of the job
\* leaves run_pending and run_scheduler and ends the thread.
RunPending ==
    /\ scheduler_thread = "run_pending"
    /\ LET due == {j \in JobNames : jobs[j] = "due"}
       IN  IF due = {}
           THEN /\ scheduler_thread' = "sleep"
                /\ UNCHANGED <<jobs, cycle_tasks>>
           ELSE \E j \in due :
                   IF CreateTask(SchedulerThread) = "task"
                   THEN /\ jobs' = [jobs EXCEPT ![j] = "scheduled"]
                        /\ cycle_tasks' = cycle_tasks \cup {j}
                        /\ scheduler_thread' = "run_pending"
                   ELSE /\ jobs' = [jobs EXCEPT ![j] = "invoked"]
                        /\ cycle_tasks' = cycle_tasks
                        /\ scheduler_thread' = "died"
    /\ UNCHANGED <<cacheVars, cycleVars, pc, last, analyzerVars, resilientVars,
                   running, signals>>

\* run_scheduler: time.sleep(60) ends
SchedulerWake ==
    /\ scheduler_thread = "sleep"
    /\ scheduler_thread' = "check"
    /\ UNCHANGED <<cacheVars, cycleVars, pc, last, analyzerVars, resilientVars,
                   running, jobs, cycle_tasks, signals>>

\* run_once: the components are initialised and run_daily_digest starts.
RunOnce ==
    /\ pc = "idle"
    /\ pc' = "fetch_and_analyze"
    /\ last' = [op |-> "run_once"]
    /\ UNCHANGED <<cacheVars, otherVars>>

\* run_daily_digest: fetch_and_analyze_papers raises, finds no significant
\* analysis, or returns analyses to publish.
FetchAndAnalyze ==
    /\ pc = "fetch_and_analyze"
    /\ \E outcome \in {"raises", "no_analyses", "analyses"} :
          IF outcome = "analyses"
          THEN pc' = "publish" /\ last' = last
          ELSE /\ pc' = "returned"
               /\ last' = [op |-> "run_once",
                           status |-> IF outcome = "raises" THEN "error"
                                      ELSE "no_content"]
    /\ UNCHANGED <<cacheVars, otherVars>>

\* run_daily_digest: generate_and_distribute_digest returns its result or
\* raises.
GenerateAndDistribute ==
    /\ pc = "publish"
    /\ \E outcome \in {"raises", "success"} :
          last' = [op |-> "run_once",
                   status |-> IF outcome = "raises" THEN "error" ELSE "success"]
    /\ pc' = "returned"
    /\ UNCHANGED <<cacheVars, otherVars>>

\* main() returns and the process ends; the scheduler thread is a daemon
\* thread and ends with it.
Exit ==
    /\ pc \in {"stopped", "returned"}
    /\ pc' = "exited"
    /\ scheduler_thread' =
          IF scheduler_thread \in {"check", "run_pending", "sleep"} THEN "killed"
          ELSE scheduler_thread
    /\ UNCHANGED <<cacheVars, cycleVars, last, analyzerVars, resilientVars,
                   running, jobs, cycle_tasks, signals>>

\* ResearchAgent(config): either job may be disabled in the configuration.
AgentInit ==
    /\ pc = "idle"
    /\ last = NoCall
    /\ FreshCache
    /\ AnalyzerIdle
    /\ ResilientIdle
    /\ CycleIdle
    /\ running = FALSE
    /\ scheduler_thread = "none"
    /\ jobs \in [JobNames -> {"disabled", "enabled"}]
    /\ cycle_tasks = {}
    /\ signals = <<>>

AgentNext ==
    \/ Signal
    \/ StartAgent
    \/ MainLoop
    \/ MainWake
    \/ JobDue
    \/ SchedulerCheck
    \/ RunPending
    \/ SchedulerWake
    \/ RunOnce
    \/ FetchAndAnalyze
    \/ GenerateAndDistribute
    \/ Exit

AgentSpec == AgentInit /\ [][AgentNext]_vars

\* ----------------------------------------------------- resilient agent ----
\* run_agent_with_recovery of the start script bootstrap.py writes.  pc is
\* "idle" once ResilientAgent is constructed, "loop" at the head of the
\* while loop, "attempt" while research_agent.main() runs, "sleeping" in
\* asyncio.sleep(self.retry_delay), and at the end "completed" (main()
\* returned), "failed" (the last exception was raised again) or "abandoned"
\* (the loop ended on the cleared flag).  The time of a sleep passes in steps
\* of the base delay.
Min(a, b) == IF a < b THEN a ELSE b

\* Mutant of NextDelay: doubles without the cap.
NextDelayUncapped(delay) == delay * 2

\* self.retry_delay = min(self.retry_delay * 2, 300)
NextDelay(delay) == Min(delay * 2, MaxDelay)

\* run_agent_with_recovery is called.
RunAgentWithRecovery ==
    /\ pc = "idle"
    /\ pc' = "loop"
    /\ last' = [op |-> "run_agent_with_recovery"]
    /\ UNCHANGED <<cacheVars, otherVars>>

\* while self.running and retry_count < self.max_retries
RecoveryLoop ==
    /\ pc = "loop"
    /\ IF resilient_running /\ retry_count < max_retries
       THEN pc' = "attempt" /\ health_status' = "running"
       ELSE pc' = "abandoned" /\ health_status' = health_status
    /\ UNCHANGED <<cacheVars, cycleVars, last, analyzerVars, agentVars,
                   retry_count, retry_delay, resilient_running, signal_handler,
                   sleeps, slept>>

\* The signal handler of ResilientAgent, while it is the one installed.
ResilientSignal ==
    /\ pc \in {"loop", "attempt", "sleeping"}
    /\ signal_handler = "ResilientAgent"
    /\ resilient_running
    /\ resilient_running' = FALSE
    /\ UNCHANGED <<cacheVars, cycleVars, pc, last, analyzerVars, agentVars,
                   retry_count, retry_delay, signal_handler, sleeps, slept,
                   health_status>>

\* main() constructs ResearchAgent, which binds the signals to its own
\* handler.
AgentConstructed ==
    /\ pc = "attempt"
    /\ signal_handler = "ResilientAgent"
    /\ signal_handler' = "ResearchAgent"
    /\ UNCHANGED <<cacheVars, cycleVars, pc, last, analyzerVars, agentVars,
                   retry_count, retry_delay, resilient_running, sleeps, slept,
                   health_status>>

\* await main() returns: the loop is left by break.
AttemptReturns ==
    /\ pc = "attempt"
    /\ pc' = "completed"
    /\ health_status' = "completed"
    /\ UNCHANGED <<cacheVars, cycleVars, last, analyzerVars, agentVars,
                   retry_count, retry_delay, resilient_running, signal_handler,
                   sleeps, slept>>

\* Mutant of AttemptRaises: the handler retries as long as the flag is set,
\* whatever the count.
AttemptRaisesWhileRunning ==
    /\ pc = "attempt"
    /\ retry_count' = retry_count + 1
    /\ IF resilient_running
       THEN /\ pc' = "sleeping"
            /\ sleeps' = Append(sleeps, retry_delay)
            /\ health_status' = "error"
       ELSE /\ pc' = "failed"
            /\ sleeps' = sleeps
            /\ health_status' = "failed"
    /\ UNCHANGED <<cacheVars, cycleVars, last, analyzerVars, agentVars,
                   retry_delay, resilient_running, signal_handler, slept>>

\* await main() raises an Exception: the retry is counted; then either the
\* sleep of retry_delay starts, or the exception is raised again.
AttemptRaises ==
    /\ pc = "attempt"
    /\ retry_count' = retry_count + 1
    /\ IF retry_count + 1 < max_retries /\ resilient_running
       THEN /\ pc' = "sleeping"
            /\ sleeps' = Append(sleeps, retry_delay)
            /\ health_status' = "error"
       ELSE /\ pc' = "failed"
            /\ sleeps' = sleeps
            /\ health_status' = "failed"
    /\ UNCHANGED <<cacheVars, cycleVars, last, analyzerVars, agentVars,
                   retry_delay, resilient_running, signal_handler, slept>>

\* Time passes inside asyncio.sleep(self.retry_delay).
SleepGoesOn ==
    /\ pc = "sleeping"
    /\ slept + BaseDelay < retry_delay
    /\ slept' = slept + BaseDelay
    /\ UNCHANGED <<cacheVars, cycleVars, pc, last, analyzerVars, agentVars,
                   retry_count, retry_delay, resilient_running, signal_handler,
                   sleeps, health_status>>

\* asyncio.sleep(self.retry_delay) ends and the delay is doubled.
SleepEnds ==
    /\ pc = "sleeping"
    /\ slept + BaseDelay >= retry_delay
    /\ slept' = 0
    /\ retry_delay' = NextDelay(retry_delay)
    /\ pc' = "loop"
    /\ UNCHANGED <<cacheVars, cycleVars, last, analyzerVars, agentVars,
                   retry_count, resilient_running, signal_handler, sleeps,
                   health_status>>

\* run() and main() of the start script after run_agent_with_recovery: when
\* it returned, main() returns; when it raised, run() records
\* "startup_failed" and raises again, and main() ends in sys.exit(1).
RunEnds ==
    /\ pc \in {"completed", "abandoned", "failed"}
    /\ IF pc = "failed"
       THEN pc' = "exit_1" /\ health_status' = "startup_failed"
       ELSE pc' = "exit_0" /\ health_status' = health_status
    /\ UNCHANGED <<cacheVars, cycleVars, last, analyzerVars, agentVars,
                   retry_count, retry_delay, resilient_running, signal_handler,
                   sleeps, slept>>

ResilientInit ==
    /\ pc = "idle"
    /\ last = NoCall
    /\ FreshCache
    /\ OthersIdle

ResilientNext ==
    \/ RunAgentWithRecovery
    \/ RecoveryLoop
    \/ ResilientSignal
    \/ AgentConstructed
    \/ AttemptReturns
    \/ AttemptRaises
    \/ SleepGoesOn
    \/ SleepEnds
    \/ RunEnds

ResilientSpec == ResilientInit /\ [][ResilientNext]_vars

\* The same loop on an event loop that runs every coroutine that can go on,
\* with attempts that end: research_agent.main() returns or raises, and every
\* sleep ends.  Signals may or may not arrive.
ResilientLiveSpec ==
    /\ ResilientInit
    /\ [][ResilientNext]_vars
    /\ WF_vars(RunAgentWithRecovery)
    /\ WF_vars(RecoveryLoop)
    /\ WF_vars(AttemptReturns \/ AttemptRaises)
    /\ WF_vars(SleepGoesOn)
    /\ WF_vars(SleepEnds)
    /\ WF_vars(RunEnds)

\* ------------------------------------------------------- arxiv_fetcher ----
\* Text is a sequence of characters, so that lower() and the substring test
\* `keyword in text` are computed as Python computes them.  A datetime is
\* its hour and whether it carries a UTC offset ("utc") or not ("naive").
\* A float is the double it is: t tenths (the double nearest to t/10) plus
\* e times 2^-56.
Chars(word) ==
    CASE word = "x" -> <<"x">>
      [] word = "Novel" -> <<"N", "o", "v", "e", "l">>
      [] word = "state-of-the-art" -> <<"s", "t", "a", "t", "e", "-", "o", "f", "-", "t", "h", "e", "-", "a", "r", "t">>
      [] word = "renewal" -> <<"r", "e", "n", "e", "w", "a", "l">>
      [] word = "Survey" -> <<"S", "u", "r", "v", "e", "y">>

Vocabulary == {"Novel", "state-of-the-art", "renewal", "Survey"}

\* Bounds: the words of a title and of an abstract.
MaxTitle == 1
MaxAbstract == 2

\* " ".join(words)
RECURSIVE JoinWords(_)
JoinWords(words) ==
    IF words = <<>> THEN <<>>
    ELSE IF Len(words) = 1 THEN Chars(words[1])
    ELSE Chars(words[1]) \o <<" ">> \o JoinWords(Tail(words))

TextsUpTo(n) == {JoinWords(ws) : ws \in UNION {[1..k -> Vocabulary] : k \in 0..n}}

\* str.lower(), on the letters of the vocabulary
Lower(text) ==
    [i \in 1..Len(text) |->
        CASE text[i] = "N" -> "n"
          [] text[i] = "S" -> "s"
          [] OTHER -> text[i]]

\* keyword in text
In(keyword, text) ==
    \E i \in 1..(Len(text) - Len(keyword) + 1) :
        \A k \in 1..Len(keyword) : text[i + k - 1] = keyword[k]

high_value_keywords ==
    <<<<"b", "r", "e", "a", "k", "t", "h", "r", "o", "u", "g", "h">>,
      <<"n", "o", "v", "e", "l">>,
      <<"s", "t", "a", "t", "e", "-", "o", "f", "-", "t", "h", "e", "-", "a", "r", "t">>,
      <<"s", "o", "t", "a">>,
      <<"s", "i", "g", "n", "i", "f", "i", "c", "a", "n", "t">>,
      <<"i", "m", "p", "r", "o", "v", "e", "m", "e", "n", "t">>,
      <<"o", "u", "t", "p", "e", "r", "f", "o", "r", "m", "s">>,
      <<"b", "e", "a", "t", "s">>,
      <<"f", "i", "r", "s", "t">>,
      <<"n", "e", "w">>,
      <<"i", "n", "n", "o", "v", "a", "t", "i", "v", "e">>,
      <<"g", "r", "o", "u", "n", "d", "b", "r", "e", "a", "k", "i", "n", "g">>>>

\* float + float for the doubles _calculate_relevance_score can reach:
\* <<t, e, c>> :> <<t', e'>> says that (t/10 + e * 2^-56) + c/10, rounded to
\* the nearest double, is t'/10 + e' * 2^-56.
FloatSums ==
    <<0, 0, 1>> :> <<1, 0>> @@ <<0, 0, 2>> :> <<2, 0>> @@ <<0, 0, 3>> :> <<3, 0>> @@
    <<1, 0, 2>> :> <<3, 4>> @@ <<2, 0, 1>> :> <<3, 4>> @@ <<2, 0, 2>> :> <<4, 0>> @@
    <<2, 0, 3>> :> <<5, 0>> @@ <<3, 0, 2>> :> <<5, 0>> @@ <<3, 4, 2>> :> <<5, 0>> @@
    <<4, 0, 1>> :> <<5, 0>> @@ <<4, 0, 2>> :> <<6, 8>> @@ <<4, 0, 3>> :> <<7, 0>> @@
    <<5, 0, 2>> :> <<7, 0>> @@ <<6, 8, 1>> :> <<7, 8>> @@ <<6, 8, 2>> :> <<8, 0>> @@
    <<6, 8, 3>> :> <<9, 8>> @@ <<7, 0, 2>> :> <<9, -8>> @@ <<7, 8, 2>> :> <<9, 8>> @@
    <<8, 0, 1>> :> <<9, 0>> @@ <<8, 0, 2>> :> <<10, 0>> @@ <<8, 0, 3>> :> <<11, 0>> @@
    <<9, 0, 2>> :> <<11, 0>> @@ <<9, 8, 2>> :> <<11, 0>> @@ <<10, 0, 1>> :> <<11, 0>> @@
    <<10, 0, 2>> :> <<12, 0>> @@ <<10, 0, 3>> :> <<13, 0>> @@ <<11, 0, 2>> :> <<13, 0>> @@
    <<12, 0, 1>> :> <<13, 0>> @@ <<12, 0, 2>> :> <<14, 0>> @@ <<12, 0, 3>> :> <<15, 0>> @@
    <<13, 0, 2>> :> <<15, 0>> @@ <<14, 0, 1>> :> <<15, 0>> @@ <<14, 0, 2>> :> <<16, -16>> @@
    <<14, 0, 3>> :> <<17, 0>> @@ <<15, 0, 2>> :> <<17, 0>> @@ <<16, -16, 1>> :> <<17, 0>> @@
    <<16, -16, 2>> :> <<18, -16>> @@ <<16, -16, 3>> :> <<19, 0>> @@ <<17, 0, 2>> :> <<19, 0>> @@
    <<18, -16, 1>> :> <<19, 0>> @@ <<18, -16, 2>> :> <<20, -16>> @@ <<18, -16, 3>> :> <<21, -32>> @@
    <<19, 0, 2>> :> <<21, 0>> @@ <<20, -16, 1>> :> <<21, -32>> @@ <<20, -16, 2>> :> <<22, -32>> @@
    <<20, -16, 3>> :> <<23, 0>> @@ <<21, -32, 2>> :> <<23, 0>> @@ <<22, -32, 1>> :> <<23, 0>> @@
    <<22, -32, 2>> :> <<24, 0>> @@ <<22, -32, 3>> :> <<25, -32>> @@ <<23, 0, 2>> :> <<25, 0>> @@
    <<24, 0, 1>> :> <<25, 0>> @@ <<24, 0, 2>> :> <<26, 0>> @@ <<24, 0, 3>> :> <<27, -32>> @@
    <<25, -32, 2>> :> <<27, -32>> @@ <<25, 0, 2>> :> <<27, 0>> @@ <<26, 0, 2>> :> <<28, 32>> @@
    <<27, -32, 2>> :> <<29, 0>>

\* The double a decimal literal such as 0.2 or 1.0 denotes.
Literal(tenths) == [t |-> tenths, e |-> 0]

FloatAdd(x, tenths) ==
    LET sum == FloatSums[<<x.t, x.e, tenths>>]
    IN  [t |-> sum[1], e |-> sum[2]]

FloatLeq(x, y) == x.t < y.t \/ (x.t = y.t /\ x.e <= y.e)

FloatMin(x, y) == IF FloatLeq(x, y) THEN x ELSE y

\* timedelta.days of a difference of `hours` hours: whole days, rounded down.
HoursPerDay == 24
DaysOf(hours) == IF hours >= 0 THEN hours \div HoursPerDay
                 ELSE 0 - ((HoursPerDay - 1 - hours) \div HoursPerDay)

\* datetime.now(): no UTC offset.  The fetcher's clock stands at hour 0.
DatetimeNow == [t |-> 0, tz |-> "naive"]

\* Subtracting or comparing two datetimes of which one has an offset and the
\* other has none raises TypeError.
Comparable(a, b) == a.tz = b.tz

\* for keyword in high_value_keywords: if keyword in text: score += 0.2
RECURSIVE KeywordLoop(_, _, _)
KeywordLoop(text, i, score) ==
    IF i > Len(high_value_keywords) THEN score
    ELSE KeywordLoop(text, i + 1,
                     IF In(high_value_keywords[i], text) THEN FloatAdd(score, 2)
                     ELSE score)

PopularCategories == {"cs.AI", "cs.LG"}

\* Mutant of Clamp: the sum is returned as it is.
NoClamp(score) == score

\* return min(score, 1.0)
Clamp(score) == FloatMin(score, Literal(10))

\* _calculate_relevance_score(paper): raised says that TypeError leaves the
\* function, score is the float returned otherwise.
CalculateRelevanceScore(paper) ==
    LET text == Lower(paper.title \o <<" ">> \o paper.abstract)
        keywords == KeywordLoop(text, 1, Literal(0))
        days_old == DaysOf(DatetimeNow.t - paper.published.t)
        recent == IF days_old <= 1 THEN FloatAdd(keywords, 3)
                  ELSE IF days_old <= 3 THEN FloatAdd(keywords, 2)
                  ELSE IF days_old <= 7 THEN FloatAdd(keywords, 1)
                  ELSE keywords
        popular == IF paper.primary_category \in PopularCategories
                   THEN FloatAdd(recent, 2) ELSE recent
    IN  IF ~Comparable(DatetimeNow, paper.published)
        THEN [raised |-> TRUE, score |-> Literal(0)]
        ELSE [raised |-> FALSE, score |-> Clamp(popular)]

\* exclude_keywords or ['survey', 'review', 'tutorial']
DefaultExcludeKeywords ==
    <<<<"s", "u", "r", "v", "e", "y">>, <<"r", "e", "v", "i", "e", "w">>, <<"t", "u", "t", "o", "r", "i", "a", "l">>>>

\* filter_papers(papers, exclude_keywords, min_relevance_score): raised says
\* that the TypeError of a score leaves the function.
Excluded(paper, exclude_keywords) ==
    LET keywords == IF exclude_keywords = <<>> THEN DefaultExcludeKeywords
                    ELSE exclude_keywords
        text_to_check == Lower(paper.title \o <<" ">> \o paper.abstract)
    IN  \E i \in 1..Len(keywords) : In(Lower(keywords[i]), text_to_check)

FilterPapers(papers, exclude_keywords, min_relevance_score) ==
    LET scored == {i \in 1..Len(papers) : ~Excluded(papers[i], exclude_keywords)}
        Kept(paper) ==
            /\ ~Excluded(paper, exclude_keywords)
            /\ FloatLeq(min_relevance_score, CalculateRelevanceScore(paper).score)
    IN  IF \E i \in scored : CalculateRelevanceScore(papers[i]).raised
        THEN [raised |-> TRUE, ret |-> <<>>]
        ELSE [raised |-> FALSE, ret |-> SelectSeq(papers, Kept)]

\* The papers _calculate_relevance_score is called with: the hours of
\* publication are chosen around the steps of the recency bonus, one in the
\* future.
PublishedHours == {30, 0, 0 - 30, 0 - 47, 0 - 48, 0 - 80, 0 - 96, 0 - 170, 0 - 192}

Timestamps == [t : PublishedHours, tz : {"naive", "utc"}]

ArxivPapers ==
    [id : {"p1"}, title : TextsUpTo(MaxTitle), abstract : TextsUpTo(MaxAbstract),
     published : Timestamps, primary_category : {"cs.AI", "cs.CV"}]

\* fetcher._calculate_relevance_score(paper)
Score ==
    /\ pc = "idle"
    /\ \E paper \in ArxivPapers :
          LET r == CalculateRelevanceScore(paper)
          IN  last' = [op |-> "relevance_score", paper |-> paper,
                       raised |-> r.raised, score |-> r.score]
    /\ pc' = "returned"
    /\ UNCHANGED <<cacheVars, otherVars>>

RelevanceNext ==
    \/ Score
    \/ Return

RelevanceSpec == AnalyzeInit /\ [][RelevanceNext]_vars

\* fetch_papers and _parse_paper.
\* An <entry> of the catalog response, as _parse_paper reads it: the text
\* of <id> ("none": no such element), and the texts of <published> and
\* <updated>.  A timestamp text is an hour and its offset: "utc" for a text
\* ending in Z or +00:00, "naive" for a text without offset, "invalid" for
\* a text fromisoformat rejects, "absent" when the element is missing.
TimestampTexts ==
    {[t |-> 0, tz |-> "absent"], [t |-> 0, tz |-> "invalid"],
     [t |-> 0, tz |-> "naive"], [t |-> 0 - 48, tz |-> "naive"],
     [t |-> 0, tz |-> "utc"]}

Entries ==
    [id : Ids \cup {"none"}, title : {Chars("Novel")}, published : TimestampTexts,
     updated : {[t |-> 0, tz |-> "absent"], [t |-> 0 - 24, tz |-> "naive"]}]

\* datetime.fromisoformat(text.replace('Z', '+00:00')): the datetime, with
\* the offset the text has; ValueError for a text it rejects.
FromIsoFormat(text) ==
    IF text.tz = "invalid" THEN [raised |-> TRUE, value |-> DatetimeNow]
    ELSE [raised |-> FALSE, value |-> [t |-> text.t, tz |-> text.tz]]

\* _parse_paper(entry): <<>> for None, <<paper>> for the ArxivPaper.
ParsePaper(entry) ==
    LET published == IF entry.published.tz # "absent"
                     THEN FromIsoFormat(entry.published)
                     ELSE [raised |-> FALSE, value |-> DatetimeNow]
        updated == IF entry.updated.tz # "absent"
                   THEN FromIsoFormat(entry.updated)
                   ELSE published
    IN  IF entry.id = "none" THEN <<>>
        ELSE IF published.raised \/ updated.raised THEN <<>>
        ELSE <<[id |-> entry.id, title |-> entry.title, abstract |-> Chars("x"),
                published |-> published.value, updated |-> updated.value,
                primary_category |-> "cs.CV"]>>

\* start_date = datetime.now() - timedelta(days=days_back)
StartDate(window) == [t |-> DatetimeNow.t - window * HoursPerDay, tz |-> "naive"]

\* paper.published >= start_date, for two datetimes that compare
InWindow(paper, start_date) == paper.published.t >= start_date.t

\* for entry in root.findall(entry): paper = self._parse_paper(entry);
\* if paper and paper.published >= start_date: papers.append(paper).
\* raised: the comparison raised TypeError.
RECURSIVE FetchLoop(_, _, _, _)
FetchLoop(entries, i, start_date, papers) ==
    IF i > Len(entries) THEN [raised |-> FALSE, papers |-> papers]
    ELSE LET paper == ParsePaper(entries[i])
         IN  IF paper = <<>> THEN FetchLoop(entries, i + 1, start_date, papers)
             ELSE IF ~Comparable(paper[1].published, start_date)
                  THEN [raised |-> TRUE, papers |-> papers]
             ELSE IF InWindow(paper[1], start_date)
                  THEN FetchLoop(entries, i + 1, start_date, papers \o paper)
             ELSE FetchLoop(entries, i + 1, start_date, papers)

\* What session.get and response.text() come to: the request fails, the
\* status is not 200, the text is not XML, or the text is a feed.
Feed(entries) == [kind |-> "feed", entries |-> entries]
Failures ==
    {[kind |-> k, entries |-> <<>>] : k \in {"network_failure", "status", "malformed"}}

\* Mutant of FetchPapersOf: the exceptions of the request and of the
\* parser leave fetch_papers.
FetchPapersUncaught(catalog, window) ==
    IF catalog.kind = "status" THEN [raised |-> FALSE, ret |-> <<>>]
    ELSE IF catalog.kind # "feed" THEN [raised |-> TRUE, ret |-> <<>>]
    ELSE LET loop == FetchLoop(catalog.entries, 1, StartDate(window), <<>>)
         IN  IF loop.raised THEN [raised |-> TRUE, ret |-> <<>>]
             ELSE [raised |-> FALSE, ret |-> loop.papers]

\* fetch_papers(..., days_back, ...) with a session: ret is the list it
\* returns, raised says that an exception leaves it.  A status other than
\* 200 returns []; every exception of the try block (the request, the XML
\* parser, the TypeError of the loop) is logged and [] is returned.
FetchPapersOf(catalog, window) ==
    IF catalog.kind # "feed" THEN [raised |-> FALSE, ret |-> <<>>]
    ELSE LET loop == FetchLoop(catalog.entries, 1, StartDate(window), <<>>)
         IN  [raised |-> FALSE, ret |-> IF loop.raised THEN <<>> ELSE loop.papers]

DaysBack == {1, 7}

\* --------------------------------------------------------------- cycle ----
\* run_daily_digest and run_weekly_summary of a ResearchAgent whose
\* components are initialised.  pc is "fetching" in fetch_papers,
\* "filtering" in filter_papers, "analyzing" in analyze_paper_batch and the
\* significance filter, "publishing" in generate_and_distribute_digest, and
\* "returned" when the cycle function has returned its result (last) or an
\* exception has left it (last.raised).  The batch is one step here; its
\* tasks are the subject of BatchSpec.

\* Bounds: the entries of a catalog response, and the cycles run.
MaxCatalog == 2
MaxCycles == 1

\* The research configuration: config_manager.py, the defaults.
exclude_keywords == <<<<"s", "u", "r", "v", "e", "y">>, <<"r", "e", "v", "i", "e", "w">>>>
min_relevance_score == Literal(3)
min_significance_score == 4

\* filtered_papers[:10]
AnalysisCap == 10
Take(seq, n) == SubSeq(seq, 1, Min(n, Len(seq)))

\* research.filters of the configuration file: the default lookback of one
\* day, or one of nine days.
ResearchFilters == {DefaultFilters, [days_back |-> 9]}

\* config.get_research_config(): a new ResearchConfig at every call.
GetResearchConfig == [days_back |-> config.days_back]

\* research_config.days_back = 7
WeeklyDaysBack == 7

\* The entries of the feeds of a cycle.  With the configuration above, a
\* paper with the title "Novel" published now passes filter_papers, one
\* eight days old scores too low, one called "Survey" is excluded; a
\* <published> ending in Z gives the paper an offset.
CycleEntries ==
    [id : Ids, title : {Chars("Novel"), Chars("Survey")},
     published : {[t |-> 0, tz |-> "naive"], [t |-> 0 - 192, tz |-> "naive"],
                  [t |-> 0, tz |-> "utc"]},
     updated : {[t |-> 0, tz |-> "absent"]}]

CycleResponses ==
    Failures \cup {Feed(es) : es \in UNION {[1..n -> CycleEntries] : n \in 0..MaxCatalog}}

\* What the service does for a paper of the cycle: it throws, or answers
\* with a significance above, at or below the threshold.
CycleOutcomes ==
    {Throws, Answers(<<"{", "sig:9", "}">>), Answers(<<"{", "sig:4", "}">>),
     Answers(<<"{", "sig:-2", "}">>)}

\* Mutant of NoContent: the cycle goes on with an empty list.
NeverNoContent(list) == FALSE

\* if not filtered_papers / if not analyses
NoContent(list) == list = <<>>

\* Mutant of Significant: the threshold itself does not pass.
AboveThreshold(batch, threshold) ==
    LET Passes(analysis) == analysis.significance_score > threshold
    IN  SelectSeq(batch, Passes)

\* [analysis for analysis in analyses
\*  if analysis.significance_score >= research_config.min_significance_score]
Significant(batch, threshold) ==
    LET Passes(analysis) == analysis.significance_score >= threshold
    IN  SelectSeq(batch, Passes)

\* Mutant of CycleResult: an exception leaves the cycle function.
CycleResultUncaught(kind, status) ==
    IF status = "raised" THEN [op |-> kind, status |-> "none", raised |-> TRUE]
    ELSE [op |-> kind, status |-> status, raised |-> FALSE]

\* What the cycle function returns: `except Exception` turns an exception
\* into the result with status "error".
CycleResult(kind, status) ==
    IF status = "raised" THEN [op |-> kind, status |-> "error", raised |-> FALSE]
    ELSE [op |-> kind, status |-> status, raised |-> FALSE]

EndCycle(status) ==
    /\ pc' = "returned"
    /\ last' = CycleResult(last.op, status)

\* The cycle function is entered: nothing is fetched or analysed yet.
StartCycle(kind) ==
    /\ pc' = "fetching"
    /\ last' = [op |-> kind]
    /\ fetched_papers' = <<>>
    /\ filtered_papers' = <<>>
    /\ analyses' = <<>>
    /\ significant_analyses' = <<>>
    /\ digests' = <<>>
    /\ service_calls' = Append(service_calls, <<>>)
    /\ research_config' =
          IF kind = "run_weekly_summary"
          THEN [GetResearchConfig EXCEPT !.days_back = WeeklyDaysBack]
          ELSE NoResearchConfig
    /\ days_back' = 0
    /\ response' = "none"
    /\ UNCHANGED <<cacheVars, analyzerVars, agentVars, config>>

\* agent.run_daily_digest()
RunDailyDigest ==
    /\ pc = "idle"
    /\ Len(service_calls) < MaxCycles
    /\ StartCycle("run_daily_digest")
    /\ UNCHANGED resilientVars

\* agent.run_weekly_summary()
RunWeeklySummary ==
    /\ pc = "idle"
    /\ Len(service_calls) < MaxCycles
    /\ StartCycle("run_weekly_summary")
    /\ UNCHANGED resilientVars

\* research_config.days_back = original_days, once fetch_and_analyze_papers
\* has returned to run_weekly_summary.
RestoreDaysBack ==
    research_config' =
        IF last.op = "run_weekly_summary"
        THEN [research_config EXCEPT !.days_back = config.days_back]
        ELSE research_config

\* fetch_and_analyze_papers: the configuration is read, the fetcher is
\* entered and fetch_papers is called with the days_back of the
\* ResearchConfig just read; the configuration or the session may raise.
FetchPapers ==
    /\ pc = "fetching"
    /\ \/ /\ EndCycle("raised")
          /\ UNCHANGED <<fetched_papers, days_back, response>>
       \/ \E catalog \in CycleResponses :
             LET window == GetResearchConfig.days_back
                 fetched == FetchPapersOf(catalog, window)
             IN  /\ days_back' = window
                 /\ response' = catalog.kind
                 /\ IF fetched.raised
                    THEN EndCycle("raised") /\ fetched_papers' = fetched_papers
                    ELSE /\ fetched_papers' = fetched.ret
                         /\ pc' = "filtering"
                         /\ last' = last
    /\ UNCHANGED <<cacheVars, analyzerVars, agentVars, resilientVars,
                   filtered_papers, analyses, significant_analyses, digests,
                   service_calls, config, research_config>>

\* fetch_and_analyze_papers: filter_papers; without a paper left it returns
\* [], [] and the cycle function returns no_content.
FilterFetched ==
    /\ pc = "filtering"
    /\ LET filtered == FilterPapers(fetched_papers, exclude_keywords, min_relevance_score)
       IN  IF filtered.raised
           THEN /\ EndCycle("raised")
                /\ UNCHANGED <<filtered_papers, research_config>>
           ELSE /\ filtered_papers' = filtered.ret
                /\ IF NoContent(filtered.ret)
                   THEN EndCycle("no_content") /\ RestoreDaysBack
                   ELSE pc' = "analyzing" /\ last' = last
                            /\ research_config' = research_config
    /\ UNCHANGED <<cacheVars, analyzerVars, agentVars, resilientVars,
                   fetched_papers, analyses, significant_analyses, digests,
                   service_calls, config, days_back, response>>

\* fetch_and_analyze_papers: analyze_paper_batch on the first papers, then
\* the significance filter; the cycle function returns no_content when no
\* analysis is left.
AnalyzeBatch ==
    /\ pc = "analyzing"
    /\ LET batch == Take(filtered_papers, AnalysisCap)
       IN  \E outcomes \in [1..Len(batch) -> CycleOutcomes] :
              LET results == [i \in 1..Len(batch) |->
                                 AnalyzePaper(batch[i], outcomes[i]).ret]
                  returned == FilterResults(results)
                  significant == Significant(returned, min_significance_score)
              IN  /\ service_calls' =
                        [service_calls EXCEPT
                            ![Len(service_calls)] = [i \in 1..Len(batch) |-> batch[i].id]]
                  /\ analyses' = returned
                  /\ significant_analyses' = significant
                  /\ IF NoContent(significant)
                     THEN EndCycle("no_content")
                     ELSE pc' = "publishing" /\ last' = last
    /\ RestoreDaysBack
    /\ UNCHANGED <<cacheVars, analyzerVars, agentVars, resilientVars,
                   fetched_papers, filtered_papers, digests, config, days_back,
                   response>>

\* generate_and_distribute_digest(papers, analyses): without papers or
\* without analyses it returns "skipped"; otherwise the digests are generated
\* and the notifications sent, which may raise.  In the weekly cycle
\* identify_trends, which catches its own exceptions, comes first.
DistributeDigest ==
    /\ pc = "publishing"
    /\ IF filtered_papers = <<>> \/ significant_analyses = <<>>
       THEN EndCycle("skipped") /\ digests' = digests
       ELSE /\ digests' = Append(digests, [papers |-> filtered_papers,
                                           analyses |-> significant_analyses])
            /\ \E status \in {"raised", "success"} : EndCycle(status)
    /\ UNCHANGED <<cacheVars, analyzerVars, agentVars, resilientVars,
                   fetched_papers, filtered_papers, analyses, significant_analyses,
                   service_calls, config, research_config, days_back, response>>

CycleInit ==
    /\ pc = "idle"
    /\ last = NoCall
    /\ FreshCache
    /\ AnalyzerIdle
    /\ AgentIdle
    /\ ResilientIdle
    /\ CycleLocalsIdle
    /\ config \in ResearchFilters

CycleNext ==
    \/ RunDailyDigest
    \/ RunWeeklySummary
    \/ FetchPapers
    \/ FilterFetched
    \/ AnalyzeBatch
    \/ DistributeDigest
    \/ Return

CycleSpec == CycleInit /\ [][CycleNext]_vars

\* ------------------------------------------------- start script, --once ----
\* The retry loop of the start script around research_agent.main() in its
\* --once mode: an attempt constructs the ResearchAgent, initialises its
\* components (an exception of either leaves main() and is the failure
\* AttemptRaises counts) and runs run_daily_digest through run_once.

\* main() with --once up to the cycle: ResearchAgent(config) binds the
\* signals to its handler, run_once initialises the components and calls
\* run_daily_digest.
MainRunsOnce ==
    /\ pc = "attempt"
    /\ signal_handler' = "ResearchAgent"
    /\ StartCycle("run_daily_digest")
    /\ UNCHANGED <<retry_count, retry_delay, resilient_running, sleeps, slept,
                   health_status>>

\* main() prints the result run_once returned and returns; the retry loop
\* records "completed" and is left by break.
MainReturns ==
    /\ pc = "returned"
    /\ last.op = "run_daily_digest"
    /\ ~last.raised
    /\ pc' = "completed"
    /\ health_status' = "completed"
    /\ UNCHANGED <<cacheVars, cycleVars, last, analyzerVars, agentVars,
                   retry_count, retry_delay, resilient_running, signal_handler,
                   sleeps, slept>>

RecoveryNext ==
    \/ RunAgentWithRecovery
    \/ RecoveryLoop
    \/ ResilientSignal
    \/ MainRunsOnce
    \/ FetchPapers
    \/ FilterFetched
    \/ AnalyzeBatch
    \/ DistributeDigest
    \/ MainReturns
    \/ AttemptRaises
    \/ SleepGoesOn
    \/ SleepEnds
    \/ RunEnds

RecoverySpec == ResilientInit /\ [][RecoveryNext]_vars

\* ------------------------------------------------------- filter_papers ----
\* fetcher.filter_papers(papers, exclude_keywords, min_relevance_score)
\* called with lists of papers whose timestamps have no offset: the title
\* or the abstract may hold a default exclude keyword, a keyword given in
\* capitals matches through lower(), and an old paper scores below 0.3.
FilterCandidates ==
    [id : {"p1"}, title : {Chars("Novel"), Chars("Survey")},
     abstract : {<<>>, Chars("Survey")},
     published : {[t |-> 0, tz |-> "naive"], [t |-> 0 - 192, tz |-> "naive"]},
     primary_category : {"cs.CV"}]

\* exclude_keywords as the caller gives them: none, one the texts hold in
\* another case, one no text holds.
ExcludeLists == {<<>>, <<<<"N", "o", "v", "e", "l">>>>, <<<<"x">>>>}

Thresholds == {Literal(3), Literal(5)}

FilterPapersCall ==
    /\ pc = "idle"
    /\ \E papers \in UNION {[1..n -> FilterCandidates] : n \in 0..MaxCatalog},
          given \in ExcludeLists, threshold \in Thresholds :
          LET r == FilterPapers(papers, given, threshold)
          IN  last' = [op |-> "filter_papers", papers |-> papers,
                       exclude_keywords |-> given, min_relevance_score |-> threshold,
                       raised |-> r.raised, ret |-> r.ret]
    /\ pc' = "returned"
    /\ UNCHANGED <<cacheVars, otherVars>>

FilterPapersNext ==
    \/ FilterPapersCall
    \/ Return

FilterPapersSpec == AnalyzeInit /\ [][FilterPapersNext]_vars

\* --------------------------------------------------- fetch_papers calls ----
\* fetcher._parse_paper(entry)
ParsePaperCall ==
    /\ pc = "idle"
    /\ \E entry \in Entries :
          last' = [op |-> "_parse_paper", entry |-> entry, ret |-> ParsePaper(entry)]
    /\ pc' = "returned"
    /\ UNCHANGED <<cacheVars, otherVars>>

\* fetcher.fetch_papers(categories, max_results, days_back, keywords)
FetchPapersCall ==
    /\ pc = "idle"
    /\ \E catalog \in Failures \cup
                      {Feed(es) : es \in UNION {[1..n -> Entries] : n \in 0..MaxCatalog}},
          window \in DaysBack :
          LET r == FetchPapersOf(catalog, window)
          IN  last' = [op |-> "fetch_papers", response |-> catalog,
                       days_back |-> window, raised |-> r.raised, ret |-> r.ret]
    /\ pc' = "returned"
    /\ UNCHANGED <<cacheVars, otherVars>>

FetchNext ==
    \/ ParsePaperCall
    \/ FetchPapersCall
    \/ Return

FetchSpec == AnalyzeInit /\ [][FetchNext]_vars

\* --------------------------------------------------------- rank_papers ----
\* (significance_score + novelty_score + relevance_score) / 3 on floats, for
\* scores given in tenths: <<significance, novelty, relevance>> :> <<t, e>>
\* says that the quotient is the double nearest to t/30 plus e times 2^-56.
FloatMeans ==
    <<1, 2, 1>> :> <<4, 0>> @@ <<1, 2, 2>> :> <<5, 0>> @@ <<1, 2, 3>> :> <<6, 2>> @@
    <<1, 3, 1>> :> <<5, 0>> @@ <<1, 3, 2>> :> <<6, 2>> @@ <<1, 3, 3>> :> <<7, -2>> @@
    <<2, 2, 1>> :> <<5, 0>> @@ <<2, 2, 2>> :> <<6, 2>> @@ <<2, 2, 3>> :> <<7, -2>> @@
    <<2, 3, 1>> :> <<6, -2>> @@ <<2, 3, 2>> :> <<7, -2>> @@ <<2, 3, 3>> :> <<8, 0>> @@
    <<3, 2, 1>> :> <<6, -2>> @@ <<3, 2, 2>> :> <<7, -2>> @@ <<3, 2, 3>> :> <<8, 0>> @@
    <<3, 3, 1>> :> <<7, -2>> @@ <<3, 3, 2>> :> <<8, 0>> @@ <<3, 3, 3>> :> <<9, 0>>

\* The analyses rank_papers is called with: scores of 0.1 to 0.3.
RankedAnalyses ==
    [significance_score : 1..3, novelty_score : 2..3, relevance_score : 1..3]

Criteria == {"relevance", "significance", "novelty", "overall"}

\* key_func(x) for the criteria given; any other criteria is "overall".
KeyFunc(criteria, x) ==
    IF criteria = "relevance" THEN Literal(x.relevance_score)
    ELSE IF criteria = "significance" THEN Literal(x.significance_score)
    ELSE IF criteria = "novelty" THEN Literal(x.novelty_score)
    ELSE LET mean == FloatMeans[<<x.significance_score, x.novelty_score,
                                  x.relevance_score>>]
         IN  [t |-> mean[1], e |-> mean[2]]

\* Mutant of Insert: x goes before the items of its own key.
InsertBeforeEqual(ranked, x, criteria) ==
    LET before == {i \in 1..Len(ranked) :
                      ~FloatLeq(KeyFunc(criteria, ranked[i]), KeyFunc(criteria, x))}
    IN  SubSeq(ranked, 1, Cardinality(before)) \o <<x>>
            \o SubSeq(ranked, Cardinality(before) + 1, Len(ranked))

\* One item more in a list sorted with reverse=True: x goes after every
\* item whose key is not below its own, the sort being stable.
Insert(ranked, x, criteria) ==
    LET before == {i \in 1..Len(ranked) :
                      FloatLeq(KeyFunc(criteria, x), KeyFunc(criteria, ranked[i]))}
    IN  SubSeq(ranked, 1, Cardinality(before)) \o <<x>>
            \o SubSeq(ranked, Cardinality(before) + 1, Len(ranked))

\* sorted(analyses, key=key_func, reverse=True)
RECURSIVE Sorted(_, _)
Sorted(list, criteria) ==
    IF list = <<>> THEN <<>>
    ELSE Insert(Sorted(SubSeq(list, 1, Len(list) - 1), criteria),
                list[Len(list)], criteria)

\* analyzer.rank_papers(analyses, criteria)
RankPapers ==
    /\ pc = "idle"
    /\ \E ranked \in UNION {[1..n -> RankedAnalyses] : n \in 0..MaxCatalog},
          criteria \in Criteria :
          last' = [op |-> "rank_papers", analyses |-> ranked, criteria |-> criteria,
                   ret |-> Sorted(ranked, criteria)]
    /\ pc' = "returned"
    /\ UNCHANGED <<cacheVars, otherVars>>

RankNext ==
    \/ RankPapers
    \/ Return

RankSpec == AnalyzeInit /\ [][RankNext]_vars

\* ------------------------------------------------ cache_analysis fails ----
\* cache_analysis(paper, analysis) when writing papers/<id>.pkl (failed_at
\* "paper") or analyses/<id>.pkl (failed_at "analysis") raises: open()
\* raised and the file is as it was, or pickle.dump raised and the file is
\* truncated (`truncates`).  The dictionaries are only assigned after both
\* writes, `except Exception` logs the error and the call returns.  The
\* failing calls are those for the id CrashedId, on a cache that starts empty.

\* Mutant of CacheAnalysisFailing: the dictionaries are assigned before the
\* files are written.
CacheAnalysisFailingLate(s, paper, analysis, failed_at, truncates) ==
    [CacheAnalysisUpTo(s, paper, analysis, 2) EXCEPT
        !.paper_files = s.paper_files, !.analysis_files = s.analysis_files]

CacheAnalysisFailing(s, paper, analysis, failed_at, truncates) ==
    LET paper_id == paper.id
    IN  IF failed_at = "paper"
        THEN [s EXCEPT !.paper_files =
                 IF truncates THEN Store(@, paper_id, Truncated(paper)) ELSE @]
        ELSE [s EXCEPT !.paper_files = Store(@, paper_id, Pickle(paper)),
                       !.analysis_files =
                 IF truncates THEN Store(@, paper_id, Truncated(analysis)) ELSE @]

\* What the caches hold for an id: <<>> when the id is not a key.
Lookup(d, k) == IF k \in DOMAIN d THEN <<d[k]>> ELSE <<>>

\* cache.cache_analysis(paper, analysis) with a failing write.  last keeps
\* what the cache held for the id, and what is_paper_analyzed(paper) would
\* have answered, when the call was made.
PutFails ==
    /\ pc = "idle"
    /\ \E paper \in {p \in Papers : p.id = CrashedId} :
       \E analysis \in AnalysesOf(paper.id) :
       \E failed_at \in {"paper", "analysis"} : \E truncates \in BOOLEAN :
          /\ Apply(CacheAnalysisFailing(Cur, paper, analysis, failed_at, truncates))
          /\ last' = [op |-> "put_failed", paper |-> paper, analysis |-> analysis,
                      failed_at |-> failed_at, raised |-> FALSE,
                      metadata |-> Lookup(analyzed_papers, paper.id),
                      hash |-> Lookup(paper_hashes, paper.id),
                      analyzed |-> IsPaperAnalyzed(Cur, paper).ret]
    /\ pc' = "returned"
    /\ UNCHANGED <<now, otherVars>>

PutFailsNext ==
    \/ Put
    \/ PutFails
    \/ IsAnalyzed
    \/ Return
    \/ Tick

PutFailsSpec == AnalyzeInit /\ [][PutFailsNext]_vars

\* ============================================================ claims ====
Returned(op) == pc = "returned" /\ last.op = op

\* A call of `op` returns in this step.
Returns(op) == pc = "idle" /\ pc' = "returned" /\ last'.op = op

\* is_paper_analyzed(paper) and get_cached_analysis(id) asked of the current
\* cache: the value they would return.
WouldBeAnalyzed(paper) == IsPaperAnalyzed(Cur, paper).ret
WouldGet(paper_id) == GetCachedAnalysis(Cur, paper_id).ret

SameContent(p, q) ==
    p.title = q.title /\ p.abstract = q.abstract /\ p.updated = q.updated

\* The entry of paper_id is in memory and its timestamp is at or before the cutoff.
Expired(paper_id) ==
    /\ paper_id \in DOMAIN analyzed_papers
    /\ analyzed_papers[paper_id].ts = "aware"
    /\ ~Fresh(analyzed_papers[paper_id])

\* ------------------------------------------------------------------ C1 ----
\* C1: with a TTL above zero, right after put(P, A) returns is_analyzed(P)
\* is true, and is_analyzed(P') is false for every P' with the id of P and a
\* different title, abstract or updated timestamp (no put(P', _) has been
\* made since).
C1_AnalyzedAfterPutOnlyForSameContent ==
    (Returned("put") /\ ttl_hours > 0) =>
        /\ WouldBeAnalyzed(last.paper)
        /\ \A q \in Papers :
              (q.id = last.paper.id /\ ~SameContent(q, last.paper))
                  => ~WouldBeAnalyzed(q)

\* ------------------------------------------------------------------ C2 ----
\* C2: after put(P, A), get(P.id) returns A: right after the put, and after
\* every later step that is not a put on that id, not an invalidation of
\* that id by a content-hash mismatch and not the forced cleanup of the whole
\* cache, as long as the entry has not passed its TTL.
C2_GetAfterPut ==
    Returned("put") => WouldGet(last.paper.id) = {last.analysis}

C2_Ends(paper_id) ==
    \/ Returns("put") /\ last'.paper.id = paper_id
    \/ Returns("is_analyzed") /\ last'.paper.id = paper_id /\ last'.why = "changed"
    \/ Returns("force_cleanup")

C2_GetKept ==
    \A paper_id \in Ids :
        (WouldGet(paper_id) # {} /\ ~Expired(paper_id) /\ ~C2_Ends(paper_id))
            => WouldGet(paper_id)' = WouldGet(paper_id)

C2_PutThenGet == [](C2_GetAfterPut) /\ [][C2_GetKept]_vars

\* An analysis stored for p1 is still what get would return after a put for p2.
C2_Witness ==
    /\ Returned("put")
    /\ last.paper.id = "p2"
    /\ "p1" \in DOMAIN analyzed_papers
    /\ analyzed_papers["p1"].significance_score = 9
    /\ WouldGet("p1") = {[paper_id |-> "p1", significance_score |-> 9]}

\* ------------------------------------------------------------------ C3 ----
NotAnalyzedBefore(paper) == ~WouldBeAnalyzed(paper)

\* C3 as stated: filter_new returns, in input order, exactly the papers of
\* its input for which is_analyzed is false, for every input list.
C3_FilterIsSelection ==
    [][Returns("filter_new")
         => last'.ret = SelectSeq(last'.papers, NotAnalyzedBefore)]_vars

\* No two papers of the list share an id while differing in content hash.
OneVersionPerId(papers) ==
    \A i, j \in 1..Len(papers) :
        papers[i].id = papers[j].id
            => CalculatePaperHash(papers[i]) = CalculatePaperHash(papers[j])

\* C3, amended: for every input list in which no two papers share an id
\* while differing in content hash, filter_new returns, in input order,
\* exactly the papers for which is_analyzed was false when it was called.
C3_FilterIsSelectionOneVersion ==
    [][(Returns("filter_new") /\ OneVersionPerId(last'.papers))
         => last'.ret = SelectSeq(last'.papers, NotAnalyzedBefore)]_vars

\* A list of two papers was split: the first was kept, the second was cached.
C3_Witness ==
    /\ Returned("filter_new")
    /\ Len(last.papers) = 2
    /\ OneVersionPerId(last.papers)
    /\ last.ret = <<last.papers[1]>>
    /\ WouldBeAnalyzed(last.papers[2])

\* ------------------------------------------------------------------ C4 ----
\* C4: is_analyzed of a paper whose entry is at or past its TTL returns
\* false and removes the entry, so that get for that id then returns absent.
C4_Step ==
    \A paper \in Papers :
        (Expired(paper.id) /\ Returns("is_analyzed") /\ last'.paper = paper)
            => /\ last'.ret = FALSE
               /\ paper.id \notin DOMAIN analyzed_papers'
               /\ WouldGet(paper.id)' = {}

C4_ExpiredIsEvicted == [][C4_Step]_vars

\* is_analyzed found an unchanged paper expired, two hours after the start.
C4_Witness ==
    /\ Returned("is_analyzed")
    /\ last.why = "expired"
    /\ now = 2

\* ------------------------------------------------------------------ C5 ----
\* C5: get never returns an analysis for an entry whose timestamp is at or
\* past the TTL.
C5_GetNeverReturnsExpired ==
    (Returned("get") /\ last.ret # {}) => ~Expired(last.paper_id)

\* ------------------------------------------------------------------ C6 ----
\* C6: evict_expired run again right after evict_expired, with no put and no
\* time in between, leaves the whole cache (both dicts, both metadata files,
\* the Paper and the Analysis pickles) as the first run left it.
C6_EvictExpiredIdempotent ==
    (Returned("evict_expired") /\ ~last.raised) =>
        \A visited \in Visits(analyzed_papers) :
            LET again == CleanupCache(Cur, FALSE, visited)
            IN  again.s = Cur /\ ~again.raised

\* evict_expired has just evicted two entries.
C6_Witness ==
    /\ Returned("evict_expired")
    /\ last.ret.removed_entries = 2

\* ------------------------------------------------------------------ C7 ----
\* The step evicts paper_id: is_analyzed found its hash changed, its entry
\* expired or its timestamp invalid, or get found its pickle missing or
\* unreadable.
Evicts(paper_id) ==
    \/ /\ Returns("is_analyzed")
       /\ last'.paper.id = paper_id
       /\ last'.why \in {"changed", "expired", "invalid"}
    \/ /\ Returns("get")
       /\ last'.paper_id = paper_id
       /\ last'.why \in {"missing", "unreadable"}

\* C7: an eviction of an id leaves no metadata entry, no hash record, no
\* Paper pickle and no Analysis pickle for it, leaves these four records of
\* every other id as they were, and does not raise, whichever of the four
\* were already absent.
C7_Step ==
    \A paper_id \in Ids :
        Evicts(paper_id) =>
            /\ ~last'.raised
            /\ paper_id \notin DOMAIN analyzed_papers'
            /\ paper_id \notin DOMAIN paper_hashes'
            /\ paper_id \notin DOMAIN paper_files'
            /\ paper_id \notin DOMAIN analysis_files'
            /\ paper_id \notin DOMAIN analyzed_papers_file'.data
            /\ paper_id \notin DOMAIN paper_hashes_file'.data
            /\ Drop(analyzed_papers', paper_id) = Drop(analyzed_papers, paper_id)
            /\ Drop(paper_hashes', paper_id) = Drop(paper_hashes, paper_id)
            /\ Drop(paper_files', paper_id) = Drop(paper_files, paper_id)
            /\ Drop(analysis_files', paper_id) = Drop(analysis_files, paper_id)

C8_Step ==
    \A paper_id \in Ids :
        (/\ paper_id \in DOMAIN analyzed_papers
         /\ paper_id \notin DOMAIN analysis_files
         /\ Returns("get")
         /\ last'.paper_id = paper_id)
            => /\ last'.ret = {}
               /\ ~last'.raised
               /\ paper_id \notin DOMAIN analyzed_papers'
               /\ \A paper \in Papers :
                     paper.id = paper_id => ~WouldBeAnalyzed(paper)'

C8_GetWithoutBlobPurges == [][C8_Step]_vars

\* get has just met an entry without its pickle.
C8_Witness ==
    /\ Returned("get")
    /\ last.why = "missing"
    /\ last.ret = {}

\* ------------------------------------------------------------------ C9 ----
\* The metadata file holds entries and the load visited them all.
LoadVisitedAll ==
    /\ analyzed_papers_file.state = "ok"
    /\ \A i \in DOMAIN analyzed_papers_file.data :
          analyzed_papers_file.data[i].ts # "naive"

\* C9: an entry with a missing or unparsable timestamp is purged completely
\* by the operation that meets it.  Every state follows a load, and only a
\* load reads the metadata file: an invalid entry in the file has been met,
\* so nothing of its id is in the hash records or among the pickles.
C9_InvalidEntryPurged ==
    \A paper_id \in Ids :
        (/\ LoadVisitedAll
         /\ paper_id \in DOMAIN analyzed_papers_file.data
         /\ analyzed_papers_file.data[paper_id].ts = "invalid")
            => /\ paper_id \notin DOMAIN analyzed_papers
               /\ paper_id \notin DOMAIN paper_hashes
               /\ paper_id \notin DOMAIN paper_files
               /\ paper_id \notin DOMAIN analysis_files

\* ----------------------------------------------------------------- C10 ----
\* C10: after a crash between the writes of put and a reload, no
\* is_analyzed or get raises, an id without a metadata entry is not analyzed
\* and has no analysis to get whatever pickles it has, and an analysis that
\* get returns is the one stored with the metadata entry of its id (whose
\* significance score is a copy of the analysis's).
C10_RecoverableAfterCrash ==
    /\ (pc = "returned" /\ last.op \in {"is_analyzed", "get"}) => ~last.raised
    /\ \A paper_id \in Ids \ DOMAIN analyzed_papers :
          /\ WouldGet(paper_id) = {}
          /\ \A paper \in Papers : paper.id = paper_id => ~WouldBeAnalyzed(paper)
    /\ (Returned("get") /\ last.ret # {}) =>
          \A analysis \in last.ret :
              analysis.significance_score
                  = analyzed_papers[last.paper_id].significance_score

\* ----------------------------------------------------------------- C11 ----
\* A cache mutation has just returned: a put, an eviction of one id, an
\* evict_expired, or the construction of the cache with its expiry cleaning.
MutationReturned ==
    \/ Returned("put")
    \/ Returned("is_analyzed") /\ last.why \in {"changed", "expired", "invalid"}
    \/ Returned("get") /\ last.why \in {"missing", "unreadable"}
    \/ Returned("evict_expired")
    \/ Returned("restart")

\* C11: when a cache mutation returns, the metadata index on disk equals the
\* metadata index in memory.
C11_MetadataPersisted ==
    MutationReturned => analyzed_papers_file.data = analyzed_papers

\* ----------------------------------------------------------------- C14 ----
HasToken(text, tok) == \E i \in 1..Len(text) : text[i] = tok

\* The text from the first "{" to the last "}" of the joined fragments.
Located(responses) ==
    LET full_response == Join(responses)
    IN  Slice(full_response, Find(full_response, "{"), RFind(full_response, "}") + 1)

\* The service call threw, yielded no fragment, yielded text in which no
\* JSON object can be located, or text whose located part does not parse.
AbsentCase(outcome) ==
    \/ outcome.kind = "throws"
    \/ outcome.responses = <<>>
    \/ ~HasToken(outcome.responses, "{")
    \/ ~HasToken(outcome.responses, "}")
    \/ ~JSONLoads(Located(outcome.responses)).ok

\* C14: analyze_paper never raises to its caller, and it returns None when
\* the service call throws, yields no fragment, yields text without a JSON
\* object, or text whose JSON does not parse.
C14_AnalyzeNeverRaises ==
    Returned("analyze_paper") =>
        /\ ~last.raised
        /\ AbsentCase(last.outcome) => last.ret = {}

\* The service answered with braces around text that is not JSON.
C14_Witness ==
    /\ Returned("analyze_paper")
    /\ last.outcome.responses = <<"{", "x", "}">>
    /\ last.why = "json_error"
    /\ last.ret = {}

\* ----------------------------------------------------------------- C15 ----
\* scores between 0 and 1, in tenths
UnitInterval == 0..10

\* C15: every analysis analyze_paper returns has its relevance, significance
\* and novelty score in [0, 1].
C15_ScoresInUnitInterval ==
    Returned("analyze_paper") =>
        \A analysis \in last.ret :
            /\ analysis.relevance_score \in UnitInterval
            /\ analysis.significance_score \in UnitInterval
            /\ analysis.novelty_score \in UnitInterval

\* ----------------------------------------------------------------- C12 ----
\* The tasks whose call of the reasoning service is in flight.
InFlight == {i \in 1..Len(tasks) : tasks[i].pc = "in_flight"}

\* C12: during analyze_paper_batch at most 3 calls of the reasoning service
\* are in flight, whatever the order in which tasks start and complete.
C12_AtMostThreeInFlight == Cardinality(InFlight) <= 3

\* Three calls are in flight, a fourth task waits and one task is done.
C12_Witness ==
    /\ pc = "gather"
    /\ Cardinality(InFlight) = 3
    /\ \E i \in 1..Len(tasks) : tasks[i].pc = "created"
    /\ \E i \in 1..Len(tasks) : tasks[i].pc = "done"

\* ----------------------------------------------------------------- C13 ----
\* The analyses returned for the i-th paper of the batch.
ReturnedFor(i) ==
    {k \in 1..Len(last.ret) : last.ret[k].paper_id = last.papers[i].id}

\* The analysis of the i-th paper failed: the service threw, or its answer
\* gave no analysis.
Failed(i) == AbsentCase(last.outcomes[i])

\* C13: analyze_paper_batch returns exactly one analysis for every paper
\* whose analysis succeeded, the one made from the answer to that paper, and
\* none for a paper whose analysis failed; every task has run to its end.
C13_BatchIsolatesFailures ==
    Returned("analyze_paper_batch") =>
        /\ Len(last.outcomes) = Len(last.papers)
        /\ \A i \in 1..Len(last.papers) :
              IF Failed(i) THEN ReturnedFor(i) = {}
              ELSE /\ Cardinality(ReturnedFor(i)) = 1
                   /\ \A k \in ReturnedFor(i) :
                         last.ret[k] = PaperAnalysis(last.papers[i].id,
                                           JSONLoads(Located(last.outcomes[i].responses)).data)

\* One paper among five failed (the third, by an exception of the service)
\* and four analyses were returned.
C13_Witness ==
    /\ Returned("analyze_paper_batch")
    /\ Len(last.papers) = 5
    /\ {i \in 1..5 : Failed(i)} = {3}
    /\ last.outcomes[3] = Throws
    /\ Len(last.ret) = 4

\* ----------------------------------------------------------------- C17 ----
\* A cycle is in flight: in the coroutine of run_once, or as a task of the
\* event loop.
CycleInFlight == pc \in {"fetch_and_analyze", "publish"} \/ cycle_tasks # {}

\* A shutdown signal has arrived while a cycle was in flight.
SignalledInCycle ==
    \E i \in 1..Len(signals) : signals[i] \in {"fetch_and_analyze", "publish"}

\* The cycle has returned its outcome record.
CycleReturned ==
    /\ pc = "returned"
    /\ last.op = "run_once"
    /\ last.status \in {"success", "no_content", "error"}

\* C17: a cycle that is in flight when a shutdown signal clears the running
\* flag goes on to its publishing step and to the return of its outcome
\* record; the agent does not stop before that.
C17_Step == (CycleInFlight /\ SignalledInCycle') => (CycleInFlight' \/ CycleReturned')

C17_CycleFinishesAfterSignal == [][C17_Step]_vars

\* A signal arrived while the cycle was fetching and analysing; the cycle
\* went on to publish and returned a success record.
C17_Witness ==
    /\ CycleReturned
    /\ last.status = "success"
    /\ Len(signals) > 0
    /\ signals[1] = "fetch_and_analyze"
    /\ ~running

\* ----------------------------------------------------------------- C18 ----
\* A shutdown signal has cleared the running flag of the started agent.
FlagCleared == scheduler_thread # "none" /\ signals # <<>> /\ ~running

\* C18: once a shutdown signal has cleared the running flag, no scheduled
\* job is invoked any more.
C18_NoInvocationAfterShutdown ==
    [][FlagCleared => \A j \in JobNames : jobs'[j] = "invoked" => jobs[j] = "invoked"]_vars

\* ----------------------------------------------------------------- C19 ----
\* C19: a job the scheduler thread has invoked runs as a cycle on the event
\* loop, and the scheduler thread goes on polling.
C19_TriggerStartsCycle ==
    /\ scheduler_thread # "died"
    /\ \A j \in JobNames : jobs[j] = "invoked" => j \in cycle_tasks

\* ----------------------------------------------------------------- C20 ----
RECURSIVE Pow2(_)
Pow2(n) == IF n = 0 THEN 1 ELSE 2 * Pow2(n - 1)

\* C20: the delay slept after the k-th failure is min(30 * 2^(k-1), 300)
\* seconds, and neither a delay slept nor the delay kept for the next
\* failure exceeds 300 seconds.
C20_ExponentialBackoff ==
    /\ \A k \in 1..Len(sleeps) : sleeps[k] = Min(30 * Pow2(k - 1), 300)
    /\ \A k \in 1..Len(sleeps) : sleeps[k] <= 300
    /\ retry_delay <= 300

\* After three failures the fourth attempt runs; 30, 60 and 120 seconds
\* were slept.
C20_Witness ==
    /\ pc = "attempt"
    /\ retry_count = 3
    /\ sleeps = <<30, 60, 120>>

\* ------------------------------------------------------------------ C21 ---
\* The attempts run_agent_with_recovery has started: one per counted
\* failure, and the one that is running or that returned.
Attempts ==
    retry_count + (IF pc \in {"attempt", "completed"} THEN 1
                   ELSE IF pc = "exit_0" /\ health_status = "completed" THEN 1 ELSE 0)

LoopEnded == pc \in {"completed", "abandoned", "failed", "exit_0", "exit_1"}

\* At most max_retries attempts are started, and once the attempt number
\* max_retries has failed the loop has ended with the exception raised
\* (status "failed", which run() then replaces by "startup_failed").
C21_AttemptsBounded ==
    /\ Attempts <= max_retries
    /\ retry_count = max_retries =>
          \/ pc = "failed" /\ health_status = "failed"
          \/ pc = "exit_1" /\ health_status = "startup_failed"

Matched(paper) ==
    {i \in 1..Len(high_value_keywords) :
        In(high_value_keywords[i], Lower(paper.title \o <<" ">> \o paper.abstract))}

\* C29: every score _calculate_relevance_score returns is in [0, 1], however
\* many high-value keywords the text holds, whatever the age of the paper
\* (publication in the future included) and whatever its primary category.
C29_RelevanceInUnitInterval ==
    (Returned("relevance_score") /\ ~last.raised) =>
        /\ FloatLeq(Literal(0), last.score)
        /\ FloatLeq(last.score, Literal(10))

\* Three keywords, a publication in the future and a popular category add up
\* to more than 1, and 1.0 is returned.
C29_Witness ==
    /\ Returned("relevance_score")
    /\ ~last.raised
    /\ Cardinality(Matched(last.paper)) = 3
    /\ last.paper.published.t > DatetimeNow.t
    /\ last.paper.primary_category = "cs.AI"
    /\ last.score = Literal(10)

\* ------------------------------------------------------------------ C30 ---
\* The recency bonus of a paper that is `hours` hours old, in tenths.
RecencyBonus(hours) ==
    IF hours <= HoursPerDay THEN 3
    ELSE IF hours <= 3 * HoursPerDay THEN 2
    ELSE IF hours <= 7 * HoursPerDay THEN 1
    ELSE 0

\* C30: the score returned is min(1.0, 0.2 * the number of distinct
\* high-value keywords in the text + the recency bonus (0.3 up to 1 day of
\* age, 0.2 up to 3 days, 0.1 up to 7 days) + 0.2 for a popular primary
\* category); a paper of today in cs.AI with 'novel' and 'state-of-the-art'
\* scores 0.9.
C30_RelevanceFormula ==
    (Returned("relevance_score") /\ ~last.raised) =>
        LET paper == last.paper
            sum == 2 * Cardinality(Matched(paper))
                   + RecencyBonus(DatetimeNow.t - paper.published.t)
                   + (IF paper.primary_category \in PopularCategories THEN 2 ELSE 0)
        IN  last.score = Literal(Min(10, sum))

\* ------------------------------------------------------------------ C23 ---
CycleNames == {"run_daily_digest", "run_weekly_summary"}

CycleEnded == pc = "returned" /\ last.op \in CycleNames

\* C23: every cycle, daily or weekly, returns a result whose status is
\* success, no_content or error; an exception raised in fetching, analysing
\* or publishing becomes the status error and never leaves the cycle
\* function.
C23_CycleReturnsStatus ==
    CycleEnded =>
        /\ ~last.raised
        /\ last.status \in {"success", "no_content", "error"}

\* A weekly cycle whose publishing raised returned the status error.
C23_Witness ==
    /\ CycleEnded
    /\ last.op = "run_weekly_summary"
    /\ digests # <<>>
    /\ last.status = "error"
    /\ ~last.raised

\* ------------------------------------------------------------------ C24 ---
PassesThreshold(analysis) == analysis.significance_score >= min_significance_score

\* The step in which filter_papers leaves no paper, or in which no analysis
\* of the batch passes the significance threshold.
NothingLeft ==
    \/ /\ pc = "filtering"
       /\ ~FilterPapers(fetched_papers, exclude_keywords, min_relevance_score).raised
       /\ filtered_papers' = <<>>
    \/ /\ pc = "analyzing"
       /\ \A i \in 1..Len(analyses') : ~PassesThreshold(analyses'[i])

C24_Step ==
    NothingLeft =>
        /\ pc' = "returned"
        /\ last'.status = "no_content"
        /\ digests' = <<>>

\* C24: a cycle in which no candidate survives filtering, or no analysis
\* passes the significance threshold, returns the status no_content and
\* calls nothing of the publish layer.
C24_NoContentPublishesNothing ==
    /\ [][C24_Step]_vars
    /\ [](CycleEnded /\ last.status = "no_content" => digests = <<>>)

\* Analyses were produced, none at or above the threshold: the cycle
\* returned no_content and nothing was handed over.
C24_Witness ==
    /\ CycleEnded
    /\ last.status = "no_content"
    /\ analyses # <<>>
    /\ digests = <<>>

\* ------------------------------------------------------------------ C25 ---
\* C25: every analysis handed to generate_and_distribute_digest has a
\* significance of at least min_significance_score, and every analysis the
\* batch of the cycle returned with such a significance is handed to it.
C25_SignificanceAdmission ==
    /\ \A d \in DOMAIN digests : \A j \in DOMAIN digests[d].analyses :
          PassesThreshold(digests[d].analyses[j])
    /\ CycleEnded =>
          \A i \in DOMAIN analyses :
              PassesThreshold(analyses[i]) =>
                  \E d \in DOMAIN digests : \E j \in DOMAIN digests[d].analyses :
                      digests[d].analyses[j] = analyses[i]

\* Of two analyses, the one exactly at the threshold was handed over and the
\* one below it was not.
C25_Witness ==
    /\ CycleEnded
    /\ Len(analyses) = 2
    /\ analyses[1].significance_score = min_significance_score
    /\ analyses[2].significance_score < min_significance_score
    /\ Len(digests) = 1
    /\ digests[1].analyses = <<analyses[1]>>

\* ------------------------------------------------------------------ C26 ---
\* The papers of the running cycle that were sent to the reasoning service.
SentPapers ==
    IF service_calls = <<>> THEN {}
    ELSE {filtered_papers[k] : k \in 1..Min(Len(filtered_papers),
                                            Len(service_calls[Len(service_calls)]))}

\* analyze_paper_batch is entered only when the filter against the Analysis
\* Cache (filter_new_papers) has just completed.
C26_Step == pc' = "analyzing" => pc = "cache_filtering"

\* C26: within a cycle the steps are fetch, cache-filter, analyze: no call
\* of the reasoning service is issued before the cache filter has completed,
\* and no paper the Analysis Cache reports as analyzed is sent to the
\* reasoning service.
C26_CacheFilterBeforeAnalysis ==
    /\ [][C26_Step]_vars
    /\ [](\A paper \in SentPapers : ~WouldBeAnalyzed(paper))

\* ------------------------------------------------------------------ C27 ---
\* C27: at the end of a cycle every analysis produced in it is in the
\* Analysis Cache, so that the cache reports its paper as analyzed in the
\* next cycle.
C27_AnalysesPersisted ==
    CycleEnded =>
        \A i \in DOMAIN analyses : \A k \in DOMAIN filtered_papers :
            filtered_papers[k].id = analyses[i].paper_id =>
                WouldBeAnalyzed(filtered_papers[k])

\* ------------------------------------------------------------------ C28 ---
\* C28: what is handed to generate_and_distribute_digest never holds two
\* analyses of one paper id, and every analysis in it has its paper in the
\* paper list handed over with it.
C28_HandedOverDeduplicated ==
    \A d \in DOMAIN digests :
        /\ \A i, j \in DOMAIN digests[d].analyses :
              i # j => digests[d].analyses[i].paper_id # digests[d].analyses[j].paper_id
        /\ \A j \in DOMAIN digests[d].analyses :
              \E k \in DOMAIN digests[d].papers :
                  digests[d].papers[k].id = digests[d].analyses[j].paper_id

\* ------------------------------------------------------------------ C22 ---
C22_Step ==
    (CycleEnded /\ last.status = "error") =>
        /\ retry_count' = retry_count + 1
        /\ pc' \in {"sleeping", "failed"}

\* C22: an exception raised in a step of a cycle moves the orchestrator into
\* retrying: the failure is counted and the cycle is attempted again after
\* the backoff delay, until the maximum retry count is reached.
C22_CycleErrorIsRetried == [][C22_Step]_vars

\* ----------------------------------------------------------------- C31 ---
\* The text of a paper holds none of the keywords the caller gave, whatever
\* their case.
HoldsNoneOf(paper, given) ==
    \A i \in 1..Len(given) :
        ~In(Lower(given[i]), Lower(paper.title \o <<" ">> \o paper.abstract))

\* C31: filter_papers returns, in input order, exactly the papers whose
\* title and abstract hold none of the given exclude_keywords (whatever the
\* case) and whose relevance score is at least min_relevance_score; with an
\* empty exclude_keywords no paper is dropped for its keywords.
C31_FilterIsExcludeThenThreshold ==
    (Returned("filter_papers") /\ ~last.raised) =>
        LET Wanted(paper) ==
                /\ HoldsNoneOf(paper, last.exclude_keywords)
                /\ FloatLeq(last.min_relevance_score,
                            CalculateRelevanceScore(paper).score)
        IN  last.ret = SelectSeq(last.papers, Wanted)

\* ----------------------------------------------------------------- C32 ---
\* The papers the entries of a feed parse into, in response order.
RECURSIVE ParsedOf(_)
ParsedOf(entries) ==
    IF entries = <<>> THEN <<>>
    ELSE ParsePaper(Head(entries)) \o ParsedOf(Tail(entries))

\* C32: for a successful catalog response fetch_papers returns exactly the
\* entries that parse into a paper published at or after now - days_back,
\* in response order: an entry that fails to parse is skipped without
\* dropping the others, one published before the window is dropped.
C32_FetchIsParsedInWindow ==
    (Returned("fetch_papers") /\ last.response.kind = "feed") =>
        LET Kept(paper) == InWindow(paper, StartDate(last.days_back))
        IN  last.ret = SelectSeq(ParsedOf(last.response.entries), Kept)

\* ----------------------------------------------------------------- C35 ---
\* C35: every paper _parse_paper creates from a catalog entry has
\* updated >= published, whether the entry holds both timestamps, one of
\* them or none.
C35_UpdatedNotBeforePublished ==
    (Returned("_parse_paper") /\ last.ret # <<>>) =>
        /\ Comparable(last.ret[1].updated, last.ret[1].published)
        /\ last.ret[1].updated.t >= last.ret[1].published.t

\* ----------------------------------------------------------------- C34 ---
\* The scalar of the claim: the score chosen, or the mean of the three
\* scores (in thirtieths: their sum in tenths).
Scalar(criteria, x) ==
    IF criteria = "relevance" THEN x.relevance_score
    ELSE IF criteria = "significance" THEN x.significance_score
    ELSE IF criteria = "novelty" THEN x.novelty_score
    ELSE x.significance_score + x.novelty_score + x.relevance_score

Orders(n) == {f \in [1..n -> 1..n] : \A i, j \in 1..n : i # j => f[i] # f[j]}

\* C34 as stated: rank_papers returns a permutation of its input in
\* descending order of the chosen scalar (for "overall" the mean of the
\* three scores), analyses of equal scalar in their input order.
C34_RankedByScalar ==
    Returned("rank_papers") =>
        \E f \in Orders(Len(last.analyses)) :
            /\ Len(last.ret) = Len(last.analyses)
            /\ \A i \in DOMAIN last.ret : last.ret[i] = last.analyses[f[i]]
            /\ \A i, j \in DOMAIN last.ret :
                  i < j =>
                      \/ Scalar(last.criteria, last.ret[i]) > Scalar(last.criteria, last.ret[j])
                      \/ /\ Scalar(last.criteria, last.ret[i]) = Scalar(last.criteria, last.ret[j])
                         /\ f[i] < f[j]

\* C34, amended: the same with the scalar of "overall" being the float
\* (significance + novelty + relevance) / 3 as Python evaluates it.
C34_RankedByFloatKey ==
    Returned("rank_papers") =>
        \E f \in Orders(Len(last.analyses)) :
            /\ Len(last.ret) = Len(last.analyses)
            /\ \A i \in DOMAIN last.ret : last.ret[i] = last.analyses[f[i]]
            /\ \A i, j \in DOMAIN last.ret :
                  i < j =>
                      \/ ~FloatLeq(KeyFunc(last.criteria, last.ret[i]),
                                   KeyFunc(last.criteria, last.ret[j]))
                      \/ /\ KeyFunc(last.criteria, last.ret[i]) = KeyFunc(last.criteria, last.ret[j])
                         /\ f[i] < f[j]

\* Two analyses of equal significance and different relevance were ranked
\* by significance and came back in their input order.
C34_Witness ==
    /\ Returned("rank_papers")
    /\ last.criteria = "significance"
    /\ Len(last.analyses) = 2
    /\ last.analyses[1].significance_score = last.analyses[2].significance_score
    /\ last.analyses[1].relevance_score < last.analyses[2].relevance_score
    /\ last.ret = last.analyses

\* ----------------------------------------------------------------- C33 ---
FailureKinds == {"network_failure", "status", "malformed"}

\* C33: fetch_papers never fails the cycle that called it: after a network
\* failure, a status other than 200 or a malformed response it has returned
\* the empty list and raised nothing, and the cycle ends as no_content, not
\* as error, with nothing published.
C33_FetchFailureIsNoContent ==
    response \in FailureKinds =>
        /\ pc \in {"filtering", "returned", "idle"}
        /\ fetched_papers = <<>>
        /\ digests = <<>>
        /\ CycleEnded => (~last.raised /\ last.status = "no_content")

\* The request of a weekly cycle failed in the network and the cycle
\* returned no_content.
C33_Witness ==
    /\ CycleEnded
    /\ last.op = "run_weekly_summary"
    /\ response = "network_failure"
    /\ last.status = "no_content"

\* ----------------------------------------------------------------- C39 ---
\* The step in which the running cycle calls fetch_papers.
CallsFetchPapers == pc = "fetching" /\ response' # "none"

C39_Step ==
    /\ (CallsFetchPapers /\ last.op = "run_weekly_summary") =>
          days_back' = WeeklyDaysBack
    /\ (CallsFetchPapers /\ last.op = "run_daily_digest") =>
          days_back' = config.days_back
    /\ config' = config

\* C39: the weekly summary cycle fetches with a lookback of 7 days instead
\* of the configured days_back, and the configuration later cycles read
\* keeps its days_back, however the weekly cycle ends.
C39_WeeklyFetchesSevenDays == [][C39_Step]_vars

\* ----------------------------------------------------------------- C36 ---
\* C36: in every reachable state of the cache (after any sequence of put,
\* is_analyzed, get, evict_expired, forced cleanup and reload) the ids with
\* a hash record are the ids with a metadata entry.
C36_HashesMatchMetadata == DOMAIN paper_hashes = DOMAIN analyzed_papers

\* ----------------------------------------------------------------- C37 ---
\* C37: cache_analysis never raises, and when the write of the paper blob or
\* of the analysis blob fails, the metadata entry and the hash record of the
\* paper's id are what they were before the call, so that is_paper_analyzed
\* of the paper answers as it would have before.
C37_FailedPutKeepsRecords ==
    Returned("put_failed") =>
        /\ ~last.raised
        /\ Lookup(analyzed_papers, last.paper.id) = last.metadata
        /\ Lookup(paper_hashes, last.paper.id) = last.hash
        /\ WouldBeAnalyzed(last.paper) = last.analyzed

\* The analysis blob of a new version of a cached paper could not be
\* written: the paper blob is the new one, the records are the old ones and
\* the old version is still reported as analyzed.
C37_Witness ==
    /\ Returned("put_failed")
    /\ last.failed_at = "analysis"
    /\ last.metadata # <<>>
    /\ last.hash # <<CalculatePaperHash(last.paper)>>
    /\ paper_files[last.paper.id] = Pickle(last.paper)
    /\ ~last.analyzed
    /\ \E q \in Papers : q.id = last.paper.id /\ WouldBeAnalyzed(q)

\* ----------------------------------------------------------------- C38 ----
\* The i-th task of the batch is created and waits for the semaphore.
Waiting(i) == pc = "gather" /\ i <= Len(tasks) /\ tasks[i].pc = "created"

\* The i-th task of the batch holds a permit.
Holding(i) == pc = "gather" /\ i <= Len(tasks) /\ tasks[i].pc = "in_flight"

\* gather returns: every task is done, none waits or is in flight.
C38_GatherStep ==
    (pc = "gather" /\ pc' = "returned") =>
        /\ \A i \in 1..Len(tasks) : tasks[i].pc = "done"
        /\ Len(last'.outcomes) = Len(last.papers)

\* A task stops waiting only by taking a permit.
C38_AcquireStep ==
    \A i \in 1..Len(tasks) : (Waiting(i) /\ ~Waiting(i)') => Holding(i)'

\* C38: when every call of the reasoning service ends, analyze_paper_batch
\* ends for every list of papers: every created task enters the semaphore
\* (no task waits forever, and a task stops waiting only by taking a
\* permit), the permits not held by a call in flight are all free (a task
\* gives its permit back also when its call fails), and the batch returns,
\* only when every task is done.
C38_BatchTerminates ==
    /\ \A i \in 1..MaxBatch : []<>~Waiting(i)
    /\ [][C38_AcquireStep]_vars
    /\ [](pc = "gather" => semaphore = SemaphoreValue - Cardinality(InFlight))
    /\ [](Returned("analyze_paper_batch") => semaphore = SemaphoreValue)
    /\ [][C38_GatherStep]_vars
    /\ (pc = "gather") ~> Returned("analyze_paper_batch")

\* A batch of five papers has returned although the calls of its first
\* three tasks all threw: the two tasks that came after them got permits.
C38_Witness ==
    /\ Returned("analyze_paper_batch")
    /\ Len(last.papers) = 5
    /\ \A i \in 1..3 : last.outcomes[i] = Throws
    /\ Len(last.ret) = 2
    /\ semaphore = SemaphoreValue

====
